---------------------------- MODULE Spec2Model ----------------------------
(***************************************************************************)
(* A model of the Market2Agent trust-score compute core:                   *)
(*   - the per-collector CircuitBreaker     (app/compute/pipeline.py)      *)
(*   - the TrustChain observation ledger    (app/chain/trustchain.py)      *)
(*   - the ScoreCache, its compute lock and the two pipeline entry points  *)
(*     (app/compute/cache.py, pipeline.py, pipeline_v3.py)                 *)
(*                                                                         *)
(*   - the collection orchestrator, the two scoring engines, the sensor   *)
(*     network and compute_batch                                           *)
(*                                                                         *)
(* Each subsystem has its own specifications (SpecBreaker, SpecLedger,    *)
(* SpecPipe, ... in the section Specifications) over the variables it      *)
(* uses; the variables of the other subsystems stay at their initial value *)
(* in them.                                                                *)
(***************************************************************************)
EXTENDS Integers, Sequences, FiniteSets, TLC

VARIABLES
    now,            \* the wall clock: time.time() / datetime.now(); seconds in the
                    \* breaker and ledger specifications, milliseconds in the pipeline's
    \* ---- CircuitBreaker (one instance of _breakers, shared by all pipeline runs)
    br_state,       \* CircuitBreaker.state: "closed" | "open" | "half-open"
    br_failures,    \* CircuitBreaker.failures
    br_last_failure_time, \* CircuitBreaker.last_failure_time
    g_pc,           \* per pipeline run: where its _guarded(name, coro) call stands
    g_last,         \* per pipeline run: how its last _guarded call ended
    g_trial,        \* history: the running call was admitted by a breaker that was not closed
    h_consec,       \* history: failures recorded since the last recorded success
    h_last_fail_at, \* history: the time of the last record_failure (-1: none yet)
    h_recorded_in,  \* history: the breaker state the last record_success or
                    \* record_failure found ("none": nothing recorded yet)
    \* ---- TrustChainStore: the hot store (Redis db 2) and its writers
    ch_head,        \* chain:{entity}:head     -> the hash {hash, index} or nothing
    ch_latest,      \* chain:{entity}:latest:{sensor} -> JSON text of the last signals
    ch_blocks,      \* block:{hash}            -> JSON of the block, with its expiry
    ch_list,        \* chain:{entity}:blocks   -> list of block hashes, newest first
    ch_entities,    \* chain:entities          -> set of entity ids
    w_pc,           \* per writer: where its create_block call stands
    w_loc,          \* per writer: the arguments and locals of its create_block call
    h_created,      \* history: per entity, the blocks create_block returned, in order
    \* ---- ScoreCache (Redis db 0), its clients and the compute calls
    c_enabled,      \* per module singleton: ScoreCache._enabled
    c_client,       \* per module singleton: ScoreCache._client is not None
    r_score,        \* m2a:score:{key}       -> the cached result and its expiry
    r_lock,         \* m2a:score:locks:{key} -> the compute lock and its expiry
    p_pc,           \* per compute call: where it stands
    p_args,         \* per compute call: entry point, target, force_refresh, is_preview
    p_lock_acquired,\* per compute call: its local lock_acquired / lock
    p_wake,         \* per compute call: when its asyncio.sleep(1.5) ends
    p_result,       \* per compute call: the result it built, then the one it returned
    p_ticks,        \* steps the pipeline specifications' clock has taken
    h_ran,          \* history: the call ran a collection cycle
    h_recheck_miss, \* history: the call found the cache empty after its wait
    h_grants,       \* history: per key, stores of the lock key since it last did not exist
    h_answered,     \* history: the store answered the call's acquire_lock command
    \* ---- _collect_with_breakers: one orchestration run after the other
    o_br,           \* _breakers: per collector, its CircuitBreaker
    o_run,          \* "idle" | "gathering" | "returned"
    o_tasks,        \* the tasks handed to asyncio.gather, in order
    o_task,         \* per collector: "pending" | "running" | "returned"
    o_item,         \* per collector: the (name, data) pair its task returned
    o_meta,         \* metadata: data_sources, skipped, errors
    o_results,      \* results: the merged mapping name -> data
    h_awaited,      \* history: the collector's coroutine was awaited in this run
    h_outcome,      \* history: how the collector's task ended in this run
    \* ---- the scoring engine applied to one signal set
    s_raw,          \* the RawSignals handed to the engine
    s_result,       \* the TrustScoreResult of compute_score, NoScore before
    s_capped,       \* <<score, apply_hard_caps(score, s_raw)>>, NoCapped before
    s_edits,        \* the number of signals filled in so far
    h_raw_score,    \* history: raw_score of compute_score, before the hard caps
    \* ---- observe_entity: one observation of a target
    ob_pc,          \* "idle" | "loop" | "done"
    ob_target,      \* target
    ob_keys,        \* keys: the sensors queried, in order
    ob_i,           \* the index of the result the loop handles next
    ob_results,     \* results: sensor -> signals
    ob_raw,         \* raw: the RawSignals being built
    ob_score,       \* score_result
    ob_chain,       \* the blocks record_observation appended, oldest first
    h_sensor_outcome,  \* history: how each sensor's coroutine ended
    h_store_failures,  \* history: the number of store failures so far
    \* ---- ScoreCache called directly: set, get, invalidate and the lock
    k_last,         \* the last operation: its name, target and returned value
    k_ticks,        \* steps the cache specification's clock has taken
    k_ops,          \* the number of operations the direct callers have made
    k_up,           \* the store answers (the sequential calls' specification)
    h_set,          \* history: per host, the last set whose setex went through
    h_lock,         \* history: per host, the spelling its lock was taken under
    \* ---- compute_batch: one batch
    b_pc,           \* "idle" | "gathering" | "returned"
    b_targets,      \* targets
    b_max,          \* max_concurrent
    b_sem,          \* the value of the asyncio.Semaphore
    b_task,         \* per target index: "waiting" | "running" | "done"
    b_res,          \* results: what each _score_one task returned or raised
    b_out,          \* the list compute_batch returned
    \* ---- the v2 engine applied to one set of pillar signals
    v2_sig,         \* the five signal objects and the two flags of the call
    v2_result,      \* the TrustScore of calculate_trust_score, NoTrustScore before
    v2_edits,       \* the number of signals filled in so far
    \* ---- record_observation and the LakeWriter (app/chain/trustchain.py)
    lk_writer,      \* _lake_writer is not None: the LakeWriter was constructed
    lk_lines,       \* the JSONL lines under /data/lake, in the order written
    ro_ret          \* per writer: how its record_observation call stands or ended

vars_breaker ==
    <<br_state, br_failures, br_last_failure_time, g_pc, g_last, g_trial,
      h_consec, h_last_fail_at, h_recorded_in>>

vars_ledger ==
    <<ch_head, ch_latest, ch_blocks, ch_list, ch_entities, w_pc, w_loc, h_created>>

vars_pipe ==
    <<c_enabled, c_client, r_score, r_lock, p_pc, p_args,
      p_lock_acquired, p_wake, p_result, p_ticks, h_ran, h_recheck_miss,
      h_grants, h_answered>>

vars_orch ==
    <<o_br, o_run, o_tasks, o_task, o_item, o_meta, o_results, h_awaited, h_outcome>>

vars_score == <<s_raw, s_result, s_capped, s_edits, h_raw_score>>

vars_obs ==
    <<ob_pc, ob_target, ob_keys, ob_i, ob_results, ob_raw, ob_score, ob_chain,
      h_sensor_outcome, h_store_failures>>

vars_cache == <<k_last, k_ticks, k_ops, k_up, h_set, h_lock>>

vars_batch == <<b_pc, b_targets, b_max, b_sem, b_task, b_res, b_out>>

vars_v2 == <<v2_sig, v2_result, v2_edits>>

vars_lake == <<lk_writer, lk_lines, ro_ret>>

vars ==
    <<now, vars_breaker, vars_ledger, vars_pipe, vars_orch, vars_score, vars_obs,
      vars_cache, vars_batch, vars_v2, vars_lake>>

-----------------------------------------------------------------------------
(* Bounds of the model *)

\* Concurrent pipeline runs that share one breaker.
NumRuns == 2
\* The breaker specification's clock stops here (seconds).
MaxBreakerTime == 150
\* Failures the breaker specification lets the counter reach.
MaxFailures == 5
\* Concurrent writers of the ledger.
NumWriters == 2
\* Blocks appended per entity.
MaxBlocks == 3
\* The largest malware-flag count a payload carries.
MaxCount == 2
\* Steps the clock of the ledger specifications takes.
MaxLedgerTicks == 2
\* The largest `limit` verify_chain is called with.
MaxLimit == 3
\* Concurrent compute calls.
NumCalls == 2
\* Steps the clock of the pipeline specifications takes.
MaxPipeTicks == 2
MaxEdits == 1
MaxSensorFailures == 2
MaxStoreFailures == 1
\* the blanks on either side of a spelling, and its trailing slashes
MaxPad == 1
MaxSlashes == 2
\* the steps of the cache specification's clock
MaxCacheTicks == 2
\* the operations the direct callers of the cache make in one behaviour
MaxCacheOps == 2
\* the longest list of targets of a batch, and the largest max_concurrent
MaxBatch == 3
MaxConcurrent == 2
\* the signals a caller of the v2 engine fills in on top of a profile
MaxEngineEdits == 2

-----------------------------------------------------------------------------
(* CircuitBreaker: app/compute/pipeline.py *)

\* _breakers["web"] = CircuitBreaker("web", threshold=3, recovery_timeout=60)
Threshold == 3
RecoveryTimeout == 60
\* The clock of the breaker specification advances in steps of this many seconds.
BreakerTick == 30

Runs == 1..NumRuns

\* CircuitBreaker.__init__
BreakerInit ==
    /\ br_state = "closed"
    /\ br_failures = 0
    /\ br_last_failure_time = 0

\* a recovery window that ends one comparison too early (>= for >)
RecoveryElapsedInclusive == now - br_last_failure_time >= RecoveryTimeout

\* `if time.time() - self.last_failure_time > self.recovery_timeout`
RecoveryElapsed == now - br_last_failure_time > RecoveryTimeout

\* CircuitBreaker.can_execute: the value it returns
can_execute_result ==
    IF br_state = "closed" THEN TRUE
    ELSE IF br_state = "open" THEN RecoveryElapsed
    ELSE TRUE   \* half-open: "allow one test request"

\* a can_execute that never moves the breaker to half-open
can_execute_state_stuck == br_state

\* CircuitBreaker.can_execute: the state it leaves
can_execute_state ==
    IF br_state = "open" /\ RecoveryElapsed THEN "half-open" ELSE br_state

\* a record_success that closes the breaker and keeps the count
record_success_keeps_count ==
    /\ br_state' = "closed"
    /\ UNCHANGED <<br_failures, br_last_failure_time>>

\* CircuitBreaker.record_success
record_success ==
    /\ br_failures' = 0
    /\ br_state' = "closed"
    /\ UNCHANGED br_last_failure_time

\* a breaker that opens one failure too late (> for >=)
state_after_failure_late(failures) ==
    IF failures > Threshold THEN "open" ELSE br_state

\* `if self.failures >= self.threshold: self.state = "open"`
state_after_failure(failures) ==
    IF failures >= Threshold THEN "open" ELSE br_state

\* a record_failure that forgets to restart the recovery timer
record_failure_stale_timer ==
    /\ br_failures' = br_failures + 1
    /\ UNCHANGED br_last_failure_time
    /\ br_state' = state_after_failure(br_failures + 1)

\* CircuitBreaker.record_failure
record_failure ==
    /\ br_failures' = br_failures + 1
    /\ br_last_failure_time' = now
    /\ br_state' = state_after_failure(br_failures + 1)

\* _guarded, up to the await: the breaker gate.  A refused call is recorded as
\* skipped and returns; an admitted one starts its collector.
GuardedEnter(r) ==
    /\ g_pc[r] = "idle"
    /\ br_state' = can_execute_state
    /\ UNCHANGED <<br_failures, br_last_failure_time>>
    /\ IF can_execute_result
          THEN /\ g_pc' = [g_pc EXCEPT ![r] = "running"]
               /\ g_last' = [g_last EXCEPT ![r] = "none"]
               /\ g_trial' = [g_trial EXCEPT ![r] = (br_state # "closed")]
          ELSE /\ g_last' = [g_last EXCEPT ![r] = "skipped"]
               /\ UNCHANGED <<g_pc, g_trial>>
    /\ UNCHANGED <<now, h_consec, h_last_fail_at, h_recorded_in>>
    /\ UNCHANGED <<vars_ledger, vars_pipe, vars_orch, vars_score, vars_obs, vars_cache, vars_batch, vars_v2, vars_lake>>

\* _guarded: the collector returned within the timeout.
GuardedSuccess(r) ==
    /\ g_pc[r] = "running"
    /\ record_success
    /\ g_pc' = [g_pc EXCEPT ![r] = "idle"]
    /\ g_last' = [g_last EXCEPT ![r] = "success"]
    /\ g_trial' = [g_trial EXCEPT ![r] = FALSE]
    /\ h_consec' = 0
    /\ h_recorded_in' = br_state
    /\ UNCHANGED <<now, h_last_fail_at>>
    /\ UNCHANGED <<vars_ledger, vars_pipe, vars_orch, vars_score, vars_obs, vars_cache, vars_batch, vars_v2, vars_lake>>

\* _guarded: asyncio.TimeoutError, or any other Exception of the collector.
GuardedFailure(r) ==
    /\ g_pc[r] = "running"
    /\ br_failures < MaxFailures
    /\ record_failure
    /\ g_pc' = [g_pc EXCEPT ![r] = "idle"]
    /\ \E kind \in {"timeout", "error"} : g_last' = [g_last EXCEPT ![r] = kind]
    /\ g_trial' = [g_trial EXCEPT ![r] = FALSE]
    /\ h_consec' = h_consec + 1
    /\ h_last_fail_at' = now
    /\ h_recorded_in' = br_state
    /\ UNCHANGED now
    /\ UNCHANGED <<vars_ledger, vars_pipe, vars_orch, vars_score, vars_obs, vars_cache, vars_batch, vars_v2, vars_lake>>

\* time passes
BreakerClock ==
    /\ now + BreakerTick <= MaxBreakerTime
    /\ now' = now + BreakerTick
    /\ UNCHANGED <<vars_breaker, vars_ledger, vars_pipe, vars_orch, vars_score, vars_obs, vars_cache, vars_batch, vars_v2, vars_lake>>

\* time passes until the recovery window of the open breaker has run out:
\* time.time() - last_failure_time > recovery_timeout
BreakerRecoveryElapses ==
    /\ br_state = "open"
    /\ ~RecoveryElapsed
    /\ now' = br_last_failure_time + RecoveryTimeout + 1
    /\ UNCHANGED <<vars_breaker, vars_ledger, vars_pipe, vars_orch, vars_score, vars_obs, vars_cache, vars_batch, vars_v2, vars_lake>>

\* a collector fails; none does after the end of the modelled time
GuardedFailureInTime(r) == now <= MaxBreakerTime /\ GuardedFailure(r)

\* _guarded after the await: asyncio.wait_for(coro, timeout=12.0) ends the
\* collector one way or the other
GuardedReturn(r) == GuardedSuccess(r) \/ GuardedFailureInTime(r)

\* the breaker as constructed: no call has gone through it yet
BreakerIdle ==
    /\ BreakerInit
    /\ g_pc = [r \in Runs |-> "idle"]
    /\ g_last = [r \in Runs |-> "none"]
    /\ g_trial = [r \in Runs |-> FALSE]
    /\ h_consec = 0
    /\ h_last_fail_at = -1
    /\ h_recorded_in = "none"

-----------------------------------------------------------------------------
(* TrustChain: app/chain/trustchain.py *)

\* GENESIS_HASH = "0" * 64.  A hash is modelled by the text it is the SHA-256
\* of (a collision-free hash); the genesis constant is the one value that is
\* the hash of no text.
GENESIS_HASH == <<>>

Entities == {"stripe.com"}
\* Sensor.DNS, Sensor.VIRUSTOTAL
Sensors == {"dns", "virustotal"}
\* with Sensor.TRANCO, for the specification that is about the deltas
DeltaSensors == Sensors \cup {"tranco"}

\* The signal keys of the two sensors whose values are booleans
\* (collect_dns); the other keys, vt_malicious_count (collect_virustotal)
\* and tranco_rank (collect_tranco), hold an integer.
BoolKeys == {"dns_has_spf", "dns_has_dmarc"}
\* the keys in the order a collector inserts them into its result dict
InsertionKeys == <<"dns_has_spf", "dns_has_dmarc", "vt_malicious_count", "tranco_rank">>
\* the keys in the order json.dumps(..., sort_keys=True) writes them
SortedKeys == <<"dns_has_dmarc", "dns_has_spf", "tranco_rank", "vt_malicious_count">>

\* What a sensor can return: collect_dns, collect_virustotal, collect_tranco,
\* and the empty mapping _timed_collect returns for a sensor that failed.
Payloads(sensor) ==
    IF sensor = "dns"
      THEN { <<>>,
             [dns_has_spf |-> TRUE, dns_has_dmarc |-> TRUE],
             [dns_has_spf |-> FALSE, dns_has_dmarc |-> TRUE] }
    ELSE IF sensor = "tranco"
      THEN { <<>>, [tranco_rank |-> 0], [tranco_rank |-> MaxCount] }
      ELSE { [vt_malicious_count |-> 0], [vt_malicious_count |-> MaxCount] }

\* a serialiser that writes a boolean the way str() does
JsonValue_pystr(k, v) ==
    IF k \in BoolKeys THEN (IF v THEN "True" ELSE "False") ELSE ToString(v)

\* json.dumps of one value
JsonValue(k, v) ==
    IF k \in BoolKeys THEN (IF v THEN "true" ELSE "false") ELSE ToString(v)

\* json.loads of one value
PyValue(k, text) ==
    IF k \in BoolKeys THEN text = "true"
    ELSE CHOOSE n \in 0..MaxCount : ToString(n) = text

\* json.dumps(signals) with the keys in the given order: the text, as the
\* sequence of its "key": value members
JsonDumps(signals, order) ==
    LET ks == SelectSeq(order, LAMBDA k : k \in DOMAIN signals)
    IN  [i \in 1..Len(ks) |-> <<ks[i], JsonValue(ks[i], signals[ks[i]])>>]

\* json.loads(text): the dict of its members
JsonLoads(text) ==
    [k \in {text[i][1] : i \in DOMAIN text} |->
        PyValue(k, text[CHOOSE i \in DOMAIN text : text[i][1] = k][2])]

\* a compute_hash that leaves the payload out of the hashed content
compute_hash_no_signals(b) ==
    <<b.entity_id, b.sensor, b.block_index, b.observed_at, <<>>, b.prev_hash>>

\* Block.compute_hash: SHA-256 of the sorted-key JSON of the six hashed fields
compute_hash(b) ==
    <<b.entity_id, b.sensor, b.block_index, b.observed_at,
      JsonDumps(b.signals, SortedKeys), b.prev_hash>>

\* dict.get(key): the value, or None
DictGet(d, k) == IF k \in DOMAIN d THEN <<d[k]>> ELSE <<>>

\* compute_delta: one entry of the delta, for a key whose value changed
DeltaEntry(k, old, new) ==
    LET was == DictGet(old, k)
        nw  == DictGet(new, k)
        both == was # <<>> /\ nw # <<>>
        base == [was |-> was, now |-> nw]
    IN  IF k \in {"dns_has_spf", "dns_has_dmarc", "ssl_valid"}
           /\ both /\ old[k] = TRUE /\ new[k] = FALSE
          THEN [was |-> was, now |-> nw, severity |-> "critical"]
        ELSE IF k = "vt_malicious_count" /\ both /\ new[k] > old[k]
          THEN [was |-> was, now |-> nw, severity |-> "high"]
        ELSE IF k = "tranco_rank" /\ was # <<>> /\ old[k] > 0
                /\ (nw = <<>> \/ new[k] = 0)
          THEN [was |-> was, now |-> nw, severity |-> "warning"]
        ELSE base

\* compute_delta(old_signals, new_signals)
compute_delta(old, new) ==
    LET changed == {k \in DOMAIN old \cup DOMAIN new : DictGet(old, k) # DictGet(new, k)}
    IN  [k \in changed |-> DeltaEntry(k, old, new)]

Writers == 1..NumWriters

NoHead == [exists |-> FALSE, hash |-> GENESIS_HASH, index |-> 0]

\* TrustChainStore.get_chain_head
get_chain_head(e) ==
    IF ch_head[e].exists THEN <<ch_head[e].hash, ch_head[e].index>>
    ELSE <<GENESIS_HASH, 0>>

\* TrustChainStore.get_last_signals; None is returned as the empty mapping,
\* which create_block's `or {}` makes of it anyway
get_last_signals(e, sensor) ==
    IF ch_latest[e][sensor] = <<"none">> THEN <<>>
    ELSE JsonLoads(ch_latest[e][sensor])

\* an index that repeats the head's
new_index_same(prev_hash, prev_index) == prev_index

\* `new_index = prev_index + 1 if prev_hash != GENESIS_HASH else 0`
new_index(prev_hash, prev_index) ==
    IF prev_hash # GENESIS_HASH THEN prev_index + 1 ELSE 0

\* Block(...) as create_block builds it; __post_init__ stamps it and hashes it
NewBlock(e, sensor, signals, prev_hash, prev_index, old_signals) ==
    LET b == [entity_id |-> e, sensor |-> sensor,
              block_index |-> new_index(prev_hash, prev_index),
              observed_at |-> now, signals |-> signals, prev_hash |-> prev_hash,
              block_hash |-> <<>>,
              delta |-> IF old_signals # <<>> THEN compute_delta(old_signals, signals)
                        ELSE <<>>]
    IN  [b EXCEPT !.block_hash = compute_hash(b)]

\* json.dumps(block.to_dict(), default=str): the payload becomes text
BlockToJson(b) == [b EXCEPT !.signals = JsonDumps(b.signals, InsertionKeys)]

\* Block(**json.loads(block_data)) as verify_chain rebuilds it
BlockFromJson(j) == [j EXCEPT !.signals = JsonLoads(j.signals)]

\* pipe.set(block_key, ..., ex=86400 * 7)
BLOCK_TTL == 86400 * 7
\* pipe.ltrim(list_key, 0, 999) keeps the newest 1000 hashes of the list;
\* the model's list keeps the newest 2
HotListKeep == 2
Ltrim(list) == SubSeq(list, 1, IF Len(list) < HotListKeep THEN Len(list) ELSE HotListKeep)

\* a block key is readable until its time to live has run out
Live(entry) == now < entry.expires

\* create_block, first read: get_chain_head
CreateBlockHead(w, e, sensor, signals) ==
    /\ w_pc[w] = "idle"
    /\ Len(h_created[e])
         + Cardinality({v \in Writers : w_pc[v] # "idle" /\ w_loc[v].entity_id = e})
         < MaxBlocks
    /\ w_pc' = [w_pc EXCEPT ![w] = "head_read"]
    /\ w_loc' = [w_loc EXCEPT ![w] =
                   [entity_id |-> e, sensor |-> sensor, signals |-> signals,
                    prev_hash |-> get_chain_head(e)[1],
                    prev_index |-> get_chain_head(e)[2],
                    old_signals |-> <<>>]]
    /\ UNCHANGED <<now, ch_head, ch_latest, ch_blocks, ch_list, ch_entities, h_created>>
    /\ UNCHANGED <<vars_breaker, vars_pipe, vars_orch, vars_score, vars_obs, vars_cache, vars_batch, vars_v2, vars_lake>>

\* create_block, second read: get_last_signals
CreateBlockLast(w) ==
    /\ w_pc[w] = "head_read"
    /\ w_pc' = [w_pc EXCEPT ![w] = "signals_read"]
    /\ w_loc' = [w_loc EXCEPT ![w].old_signals =
                   get_last_signals(w_loc[w].entity_id, w_loc[w].sensor)]
    /\ UNCHANGED <<now, ch_head, ch_latest, ch_blocks, ch_list, ch_entities, h_created>>
    /\ UNCHANGED <<vars_breaker, vars_pipe, vars_orch, vars_score, vars_obs, vars_cache, vars_batch, vars_v2, vars_lake>>

\* an append whose pipeline leaves the latest-signals key out
append_block_no_latest(b) ==
    /\ ch_head' = [ch_head EXCEPT ![b.entity_id] =
                     [exists |-> TRUE, hash |-> b.block_hash, index |-> b.block_index]]
    /\ ch_latest' = ch_latest
    /\ ch_blocks' = {x \in ch_blocks : x.key # b.block_hash}
                      \cup {[key |-> b.block_hash, json |-> BlockToJson(b),
                             expires |-> now + BLOCK_TTL]}
    /\ ch_list' = [ch_list EXCEPT ![b.entity_id] = Ltrim(<<b.block_hash>> \o @)]
    /\ ch_entities' = ch_entities \cup {b.entity_id}

\* TrustChainStore.append_block: the five writes of one MULTI/EXEC pipeline
append_block(b) ==
    /\ ch_head' = [ch_head EXCEPT ![b.entity_id] =
                     [exists |-> TRUE, hash |-> b.block_hash, index |-> b.block_index]]
    /\ ch_latest' = [ch_latest EXCEPT ![b.entity_id][b.sensor] =
                       JsonDumps(b.signals, InsertionKeys)]
    /\ ch_blocks' = {x \in ch_blocks : x.key # b.block_hash}
                      \cup {[key |-> b.block_hash, json |-> BlockToJson(b),
                             expires |-> now + BLOCK_TTL]}
    /\ ch_list' = [ch_list EXCEPT ![b.entity_id] = Ltrim(<<b.block_hash>> \o @)]
    /\ ch_entities' = ch_entities \cup {b.entity_id}

\* create_block, the rest: build the block and append it
CreateBlockAppend(w) ==
    /\ w_pc[w] = "signals_read"
    /\ LET l == w_loc[w]
           b == NewBlock(l.entity_id, l.sensor, l.signals, l.prev_hash,
                         l.prev_index, l.old_signals)
       IN  /\ append_block(b)
           /\ h_created' = [h_created EXCEPT ![l.entity_id] = Append(@, b)]
    /\ w_pc' = [w_pc EXCEPT ![w] = "idle"]
    /\ w_loc' = [w_loc EXCEPT ![w] = <<>>]
    /\ UNCHANGED now
    /\ UNCHANGED <<vars_breaker, vars_pipe, vars_orch, vars_score, vars_obs, vars_cache, vars_batch, vars_v2, vars_lake>>

\* time passes (datetime.now(), and the time to live of the block keys)
\* one step of the clock of the ledger specifications: four days, so that
\* a block key has expired two steps after it was written
LedgerTick == 4 * 86400

LedgerClock ==
    /\ now + LedgerTick <= MaxLedgerTicks * LedgerTick
    /\ now' = now + LedgerTick
    /\ UNCHANGED <<vars_ledger, vars_breaker, vars_pipe, vars_orch, vars_score, vars_obs, vars_cache, vars_batch, vars_v2, vars_lake>>

\* Someone with access to the store rewrites the signals of a stored block
\* and leaves its block_hash as it was.
TamperSignals(key, signals) ==
    /\ \E x \in ch_blocks :
         /\ x.key = key
         /\ Live(x)
         /\ JsonLoads(x.json.signals) # signals
         /\ ch_blocks' = (ch_blocks \ {x})
               \cup {[x EXCEPT !.json.signals = JsonDumps(signals, InsertionKeys)]}
    /\ UNCHANGED <<now, ch_head, ch_latest, ch_list, ch_entities, w_pc, w_loc, h_created>>
    /\ UNCHANGED <<vars_breaker, vars_pipe, vars_orch, vars_score, vars_obs, vars_cache, vars_batch, vars_v2, vars_lake>>

\* the delta of a block that reports a critical change
FakeDelta ==
    [dns_has_spf |-> [was |-> <<TRUE>>, now |-> <<FALSE>>, severity |-> "critical"]]

\* a rewrite of the stored delta of a block: the change the block reports
\* is erased, or a critical one is made up
TamperDelta(key, delta) ==
    /\ \E x \in ch_blocks :
         /\ x.key = key
         /\ Live(x)
         /\ x.json.delta # delta
         /\ ch_blocks' = (ch_blocks \ {x}) \cup {[x EXCEPT !.json.delta = delta]}
    /\ UNCHANGED <<now, ch_head, ch_latest, ch_list, ch_entities, w_pc, w_loc, h_created>>
    /\ UNCHANGED <<vars_breaker, vars_pipe, vars_orch, vars_score, vars_obs, vars_cache, vars_batch, vars_v2, vars_lake>>

\* a rewrite of the stored observed_at of a block
TamperObservedAt(key, at) ==
    /\ \E x \in ch_blocks :
         /\ x.key = key
         /\ Live(x)
         /\ x.json.observed_at # at
         /\ ch_blocks' = (ch_blocks \ {x}) \cup {[x EXCEPT !.json.observed_at = at]}
    /\ UNCHANGED <<now, ch_head, ch_latest, ch_list, ch_entities, w_pc, w_loc, h_created>>
    /\ UNCHANGED <<vars_breaker, vars_pipe, vars_orch, vars_score, vars_obs, vars_cache, vars_batch, vars_v2, vars_lake>>

\* a record_observation whose lake write is not inside a try
record_observation_end_unguarded(block, raised) ==
    IF raised THEN [status |-> "raised", block |-> <<>>]
    ELSE [status |-> "returned", block |-> block]

\* record_observation after create_block: `try: lake.write_block(block)
\* except Exception: logger.warning(...)`, the logging of the alerts, and
\* `return block`
record_observation_end(block, raised) ==
    [status |-> "returned", block |-> block]

NoCall == [status |-> "none", block |-> <<>>]

\* record_observation up to the first read of create_block: get_chain(),
\* get_lake() (the first call constructs the LakeWriter, whose
\* os.makedirs(base_path) is outside any try) and get_chain_head
RecordObservationCall(w, e, sensor, signals, disk_ok) ==
    /\ w_pc[w] = "idle"
    /\ Len(h_created[e])
         + Cardinality({v \in Writers : w_pc[v] \in {"head_read", "signals_read"}
                                         /\ w_loc[v].entity_id = e})
         < MaxBlocks
    /\ IF lk_writer \/ disk_ok
         THEN /\ lk_writer' = TRUE
              /\ ro_ret' = [ro_ret EXCEPT ![w] = [status |-> "running", block |-> <<>>]]
              /\ w_pc' = [w_pc EXCEPT ![w] = "head_read"]
              /\ w_loc' = [w_loc EXCEPT ![w] =
                             [entity_id |-> e, sensor |-> sensor, signals |-> signals,
                              prev_hash |-> get_chain_head(e)[1],
                              prev_index |-> get_chain_head(e)[2],
                              old_signals |-> <<>>]]
         ELSE /\ ro_ret' = [ro_ret EXCEPT ![w] = [status |-> "raised", block |-> <<>>]]
              /\ UNCHANGED <<lk_writer, w_pc, w_loc>>
    /\ UNCHANGED <<now, ch_head, ch_latest, ch_blocks, ch_list, ch_entities, h_created, lk_lines>>
    /\ UNCHANGED <<vars_breaker, vars_pipe, vars_orch, vars_score, vars_obs, vars_cache, vars_batch, vars_v2>>

\* create_block inside record_observation, the rest: build the block and
\* append it; the block is the local `block` of record_observation
RecordObservationAppend(w) ==
    /\ w_pc[w] = "signals_read"
    /\ ro_ret[w].status = "running"
    /\ LET l == w_loc[w]
           b == NewBlock(l.entity_id, l.sensor, l.signals, l.prev_hash,
                         l.prev_index, l.old_signals)
       IN  /\ append_block(b)
           /\ h_created' = [h_created EXCEPT ![l.entity_id] = Append(@, b)]
           /\ w_loc' = [w_loc EXCEPT ![w] = [entity_id |-> l.entity_id, block |-> b]]
    /\ w_pc' = [w_pc EXCEPT ![w] = "lake"]
    /\ UNCHANGED <<now, vars_lake>>
    /\ UNCHANGED <<vars_breaker, vars_pipe, vars_orch, vars_score, vars_obs, vars_cache, vars_batch, vars_v2>>

\* LakeWriter.write_block: one more line of the entity's JSONL file, unless
\* os.makedirs, open or write raises; then the end of record_observation
LakeWriteBlock(w, raised) ==
    /\ w_pc[w] = "lake"
    /\ lk_lines' = IF raised THEN lk_lines
                   ELSE Append(lk_lines, BlockToJson(w_loc[w].block))
    /\ ro_ret' = [ro_ret EXCEPT ![w] = record_observation_end(w_loc[w].block, raised)]
    /\ w_pc' = [w_pc EXCEPT ![w] = "idle"]
    /\ w_loc' = [w_loc EXCEPT ![w] = <<>>]
    /\ UNCHANGED <<now, lk_writer, ch_head, ch_latest, ch_blocks, ch_list, ch_entities, h_created>>
    /\ UNCHANGED <<vars_breaker, vars_pipe, vars_orch, vars_score, vars_obs, vars_cache, vars_batch, vars_v2>>

\* no LakeWriter yet, nothing in the lake, no record_observation made
LakeIdle ==
    /\ lk_writer = FALSE
    /\ lk_lines = <<>>
    /\ ro_ret = [w \in Writers |-> NoCall]

\* the hot store before anything was written to it
LedgerIdle ==
    /\ ch_head = [e \in Entities |-> NoHead]
    /\ ch_latest = [e \in Entities |-> [s \in DeltaSensors |-> <<"none">>]]
    /\ ch_blocks = {}
    /\ ch_list = [e \in Entities |-> <<>>]
    /\ ch_entities = {}
    /\ w_pc = [w \in Writers |-> "idle"]
    /\ w_loc = [w \in Writers |-> <<>>]
    /\ h_created = [e \in Entities |-> <<>>]

\* TrustChainStore.get_entity_history(entity_id, limit): the stored JSON of
\* the blocks behind the first `limit` hashes of the list that still exist
get_entity_history(e, limit) ==
    LET n == IF Len(ch_list[e]) < limit THEN Len(ch_list[e]) ELSE limit
        stored(h) == {x \in ch_blocks : x.key = h /\ Live(x)}
        present == SelectSeq(SubSeq(ch_list[e], 1, n), LAMBDA h : stored(h) # {})
    IN  [i \in 1..Len(present) |-> (CHOOSE x \in stored(present[i]) : TRUE).json]

\* list.sort(key=block_index): a stable insertion sort
RECURSIVE SortByIndex(_)
SortByIndex(blocks) ==
    IF Len(blocks) <= 1 THEN blocks
    ELSE LET rest == SortByIndex(SubSeq(blocks, 1, Len(blocks) - 1))
             x == blocks[Len(blocks)]
             before == SelectSeq(rest, LAMBDA y : y.block_index <= x.block_index)
             after == SelectSeq(rest, LAMBDA y : y.block_index > x.block_index)
         IN  before \o <<x>> \o after

\* verify_chain: the breaks one position of the sorted list adds
BreaksAt(blocks, i) ==
    LET j == blocks[i]
        recomputed == compute_hash(BlockFromJson(j))
    IN  (IF recomputed # j.block_hash
           THEN <<[type |-> "hash_mismatch", block_index |-> j.block_index]>>
           ELSE <<>>)
        \o
        (IF i > 1 /\ blocks[i - 1].block_hash # j.prev_hash
           THEN <<[type |-> "chain_break", block_index |-> j.block_index]>>
           ELSE <<>>)

RECURSIVE BreaksUpTo(_, _)
BreaksUpTo(blocks, n) ==
    IF n = 0 THEN <<>> ELSE BreaksUpTo(blocks, n - 1) \o BreaksAt(blocks, n)

\* TrustChainStore.verify_chain(entity_id, limit)
verify_chain(e, limit) ==
    LET blocks == SortByIndex(get_entity_history(e, limit))
        breaks == BreaksUpTo(blocks, Len(blocks))
    IN  IF Len(blocks) = 0
          THEN [verified |-> TRUE, blocks_checked |-> 0]
          ELSE [verified |-> Len(breaks) = 0, blocks_checked |-> Len(blocks),
                breaks |-> breaks, chain_head |-> blocks[Len(blocks)].block_hash]

\* the breaks list of a verify_chain result (the result of an empty history
\* carries none)
Breaks(result) == IF "breaks" \in DOMAIN result THEN result.breaks ELSE <<>>

-----------------------------------------------------------------------------
(* ScoreCache: app/compute/cache.py *)

\* LOCK_TTL = 30 (seconds)
LOCK_TTL == 30
\* TTL_REGISTERED, TTL_UNREGISTERED, TTL_FAILED, TTL_PREVIEW (seconds)
TTL_REGISTERED == 3600
TTL_UNREGISTERED == 21600
TTL_FAILED == 300
TTL_PREVIEW == 86400
\* `await asyncio.sleep(1.5)`, in milliseconds
LockWaitMs == 1500

\* Text is modelled as the sequence of its characters.
Whitespace == {" "}

\* str.lower(), on the upper-case letters the model's targets use
LowerChar(c) ==
    CASE c = "A" -> "a" [] c = "H" -> "h" [] c = "P" -> "p"
      [] c = "S" -> "s" [] c = "T" -> "t" [] c = "W" -> "w" [] OTHER -> c

Lower(t) == [i \in DOMAIN t |-> LowerChar(t[i])]

RECURSIVE LStrip(_, _)
LStrip(t, chars) ==
    IF t # <<>> /\ Head(t) \in chars THEN LStrip(Tail(t), chars) ELSE t

RECURSIVE RStrip(_, _)
RStrip(t, chars) ==
    IF t # <<>> /\ t[Len(t)] \in chars
      THEN RStrip(SubSeq(t, 1, Len(t) - 1), chars) ELSE t

\* str.strip()
Strip(t) == RStrip(LStrip(t, Whitespace), Whitespace)

\* `if clean.startswith(prefix): clean = clean[len(prefix):]`
StripPrefix(t, prefix) ==
    IF Len(t) >= Len(prefix) /\ SubSeq(t, 1, Len(prefix)) = prefix
      THEN SubSeq(t, Len(prefix) + 1, Len(t)) ELSE t

PrefixHttps == <<"h", "t", "t", "p", "s", ":", "/", "/">>
PrefixHttp == <<"h", "t", "t", "p", ":", "/", "/">>
PrefixWww == <<"w", "w", "w", ".">>

\* a key made without lower(): the spelling's letter case stays in it
_normalize_key_cased(target) ==
    LET clean == Strip(target)
        c1 == StripPrefix(clean, PrefixHttps)
        c2 == StripPrefix(c1, PrefixHttp)
        c3 == StripPrefix(c2, PrefixWww)
    IN  RStrip(c3, {"/"})

\* _normalize_key: the cleaned text stands for its SHA-256 (a collision-free hash)
_normalize_key(target) ==
    LET clean == Lower(Strip(target))
        c1 == StripPrefix(clean, PrefixHttps)
        c2 == StripPrefix(c1, PrefixHttp)
        c3 == StripPrefix(c2, PrefixWww)
    IN  RStrip(c3, {"/"})

\* The targets of the compute calls: two spellings of one host.
TargetPlain == <<"a", ".", "i", "o">>
TargetUrl ==
    <<" ", "H", "t", "t", "p", "s", ":", "/", "/", "W", "w", "w", ".",
      "A", ".", "i", "o", "/">>
Targets == {TargetPlain, TargetUrl}

\* str.upper(), on the letters LowerChar knows
UpperChar(c) ==
    CASE c = "a" -> "A" [] c = "h" -> "H" [] c = "p" -> "P"
      [] c = "s" -> "S" [] c = "t" -> "T" [] c = "w" -> "W" [] OTHER -> c

Upper(t) == [i \in DOMAIN t |-> UpperChar(t[i])]

\* Bare hosts, and the ways of spelling one: surrounding blanks, a scheme,
\* "www.", letters in upper case, trailing slashes.
TargetOther == <<"h", "a", "t", ".", "s", "h">>
Hosts == {TargetPlain, TargetOther}
Schemes == {<<>>, PrefixHttp, PrefixHttps}

Spelling(h, lead, scheme, www, upper, slashes, trail) ==
    LET body == scheme \o (IF www THEN PrefixWww ELSE <<>>) \o h
                  \o [i \in 1..slashes |-> "/"]
        cased == IF upper THEN Upper(body) ELSE body
    IN  [i \in 1..lead |-> " "] \o cased \o [i \in 1..trail |-> " "]

SpellingsOf(h) ==
    { Spelling(h, lead, scheme, www, upper, slashes, trail) :
        lead \in 0..MaxPad, scheme \in Schemes, www \in BOOLEAN,
        upper \in BOOLEAN, slashes \in 0..MaxSlashes, trail \in 0..MaxPad }

\* the targets the direct callers of the cache use: three spellings of a host
CacheTargetsOf(h) ==
    { h, Spelling(h, 1, PrefixHttps, TRUE, TRUE, 1, 1),
      Spelling(h, 0, PrefixHttp, FALSE, FALSE, 2, 0) }
CacheHosts == {TargetPlain}
CacheTargets == UNION {CacheTargetsOf(h) : h \in CacheHosts}
HostOf(target) == CHOOSE h \in CacheHosts : target \in CacheTargetsOf(h)

Keys == {_normalize_key(t) : t \in Targets \cup CacheTargets}

\* The two pipeline modules, each with its own ScoreCache singleton (_cache).
Modules == {"compute_trust_score", "score_entity"}
Calls == 1..NumCalls
\* the singleton the direct callers share: get_cache() of pipeline.py
CacheModule == "compute_trust_score"

NoEntry == [exists |-> FALSE, value |-> <<>>, ttl |-> 0, expires |-> 0]
NoLock == [exists |-> FALSE, expires |-> 0]

\* a Redis key with a time to live exists until it has run out
KeyLive(entry) == entry.exists /\ now < entry.expires

\* Every operation of the cache takes `up`: whether the store answers while
\* the operation runs (the environment decides, operation by operation).

\* ScoreCache._connect, as called by an operation: whether it hands out a client
connect_ok(m, up) == c_enabled[m] /\ (c_client[m] \/ up)

\* ScoreCache._connect: what it leaves in _enabled and _client
connect_effect(m, up) ==
    /\ c_enabled' = [c_enabled EXCEPT ![m] = connect_ok(m, up)]
    /\ c_client' = [c_client EXCEPT ![m] = IF c_enabled[m] THEN @ \/ up ELSE @]

\* the store command of an operation goes through (it raises otherwise)
command_ok(m, up) == connect_ok(m, up) /\ up

\* a get that answers from the entry whether or not the store does
cache_get_no_fail_open(m, target, up) ==
    LET k == _normalize_key(target)
    IN  IF k \in DOMAIN r_score /\ KeyLive(r_score[k]) THEN r_score[k].value ELSE <<>>

\* ScoreCache.get: the cached result, or None (<<>>)
cache_get(m, target, up) ==
    LET e == r_score[_normalize_key(target)]
    IN  IF command_ok(m, up) /\ KeyLive(e) THEN e.value ELSE <<>>

\* a choice that looks at is_preview before failed
choose_ttl_preview_first(is_registered, is_preview, failed) ==
    IF is_preview THEN TTL_PREVIEW
    ELSE IF failed THEN TTL_FAILED
    ELSE IF is_registered THEN TTL_REGISTERED
    ELSE TTL_UNREGISTERED

\* ScoreCache.set: "Choose TTL"
choose_ttl(is_registered, is_preview, failed) ==
    IF failed THEN TTL_FAILED
    ELSE IF is_preview THEN TTL_PREVIEW
    ELSE IF is_registered THEN TTL_REGISTERED
    ELSE TTL_UNREGISTERED

\* ScoreCache.set: the store after it
cache_set(m, target, value, is_registered, is_preview, failed, up) ==
    LET ttl == choose_ttl(is_registered, is_preview, failed)
    IN  r_score' =
          IF command_ok(m, up)
            THEN [r_score EXCEPT ![_normalize_key(target)] =
                    [exists |-> TRUE, value |-> value, ttl |-> ttl,
                     expires |-> now + ttl * 1000]]
            ELSE r_score

\* a lock taken with a plain SET: granted whether or not the key exists
lock_granted_always(m, target, up) == TRUE

\* ScoreCache.acquire_lock: the value it returns; SET ... NX answers only
\* when the key does not exist, and every failure answers True
lock_granted(m, target, up) ==
    IF command_ok(m, up) THEN ~KeyLive(r_lock[_normalize_key(target)]) ELSE TRUE

\* ScoreCache.acquire_lock: the store after it
acquire_lock(m, target, up) ==
    LET k == _normalize_key(target)
        stored == command_ok(m, up) /\ lock_granted(m, target, up)
    IN  /\ r_lock' = IF stored
                       THEN [r_lock EXCEPT ![k] =
                               [exists |-> TRUE, expires |-> now + LOCK_TTL * 1000]]
                       ELSE r_lock
        /\ h_grants' = IF stored
                         THEN [h_grants EXCEPT ![k] =
                                 IF KeyLive(r_lock[k]) THEN @ + 1 ELSE 1]
                         ELSE h_grants

\* ScoreCache.release_lock: the store after it
release_lock_skipped(m, target, up) == r_lock' = r_lock
release_lock(m, target, up) ==
    r_lock' = IF command_ok(m, up)
                THEN [r_lock EXCEPT ![_normalize_key(target)] = NoLock]
                ELSE r_lock

-----------------------------------------------------------------------------
(* ScoreCache called directly: what set stores and what get hands back *)

\* A Python value is <<type, text, items>>: the name of its type, its str()
\* for a scalar, its members for a list or tuple, its <<key, value>> pairs in
\* insertion order for a dict (every key a str).
PyNone == <<"NoneType", "None", <<>>>>
PyBool(b) == <<"bool", IF b THEN "True" ELSE "False", <<>>>>
PyStr(text) == <<"str", text, <<>>>>
PyInt(n) == <<"int", ToString(n), <<>>>>
PyDict(items) == <<"dict", "", items>>

RECURSIVE json_dumps_value(_)

\* a serialiser that knows no booleans: they go through default=str
json_dumps_value_no_bool(v) ==
    CASE v[1] = "int" -> <<"integer", v[2], <<>>>>
      [] v[1] = "float" -> <<"real", v[2], <<>>>>
      [] v[1] = "str" -> <<"string", v[2], <<>>>>
      [] v[1] = "NoneType" -> <<"literal", "null", <<>>>>
      [] v[1] \in {"list", "tuple"} ->
           <<"array", "", [i \in DOMAIN v[3] |-> json_dumps_value(v[3][i])]>>
      [] v[1] = "dict" ->
           <<"object", "",
             [i \in DOMAIN v[3] |-> <<v[3][i][1], json_dumps_value(v[3][i][2])>>]>>
      [] OTHER -> <<"string", v[2], <<>>>>

\* json.dumps(value, default=str): the JSON text as <<lexical class, text,
\* members>>; a tuple is written as an array, and a value json does not know
\* (a datetime) as the string str() makes of it
json_dumps_value(v) ==
    CASE v[1] = "int" -> <<"integer", v[2], <<>>>>
      [] v[1] = "float" -> <<"real", v[2], <<>>>>
      [] v[1] = "str" -> <<"string", v[2], <<>>>>
      [] v[1] = "bool" ->
           <<"literal", IF v[2] = "True" THEN "true" ELSE "false", <<>>>>
      [] v[1] = "NoneType" -> <<"literal", "null", <<>>>>
      [] v[1] \in {"list", "tuple"} ->
           <<"array", "", [i \in DOMAIN v[3] |-> json_dumps_value(v[3][i])]>>
      [] v[1] = "dict" ->
           <<"object", "",
             [i \in DOMAIN v[3] |-> <<v[3][i][1], json_dumps_value(v[3][i][2])>>]>>
      [] OTHER -> <<"string", v[2], <<>>>>

\* json.loads(raw)
RECURSIVE json_loads_value(_)
json_loads_value(j) ==
    CASE j[1] = "integer" -> <<"int", j[2], <<>>>>
      [] j[1] = "real" -> <<"float", j[2], <<>>>>
      [] j[1] = "string" -> <<"str", j[2], <<>>>>
      [] j[1] = "literal" ->
           IF j[2] = "null" THEN PyNone ELSE PyBool(j[2] = "true")
      [] j[1] = "array" ->
           <<"list", "", [i \in DOMAIN j[3] |-> json_loads_value(j[3][i])]>>
      [] OTHER ->
           PyDict([i \in DOMAIN j[3] |-> <<j[3][i][1], json_loads_value(j[3][i][2])>>])

\* d[key] = value
DictSet(d, key, value) ==
    IF \E i \in DOMAIN d[3] : d[3][i][1] = key
      THEN PyDict([i \in DOMAIN d[3] |->
                     IF d[3][i][1] = key THEN <<key, value>> ELSE d[3][i]])
      ELSE PyDict(Append(d[3], <<key, value>>))

\* d.get(key)
DictValue(d, key) ==
    IF \E i \in DOMAIN d[3] : d[3][i][1] = key
      THEN d[3][CHOOSE i \in DOMAIN d[3] : d[3][i][1] = key][2]
      ELSE PyNone

\* the dict without the given keys
DictWithout(d, keys) == PyDict(SelectSeq(d[3], LAMBDA it : it[1] \notin keys))

\* ScoreCache.set: `score_data["_cached_at"] = time.time()` and
\* `score_data["_ttl"] = ttl`, written into the caller's dict
stamped(score_data, ttl) ==
    DictSet(DictSet(score_data, "_cached_at", <<"float", ToString(now), <<>>>>),
            "_ttl", PyInt(ttl))

\* ScoreCache.get: `data = json.loads(raw)` and `data["_cache"] = "hit"`
loaded(raw) == DictSet(json_loads_value(raw), "_cache", PyStr("hit"))

\* the keys the cache writes into a result
BookkeepingKeys == {"_cached_at", "_ttl", "_cache"}

\* The results the callers store: what TrustScoreResult.to_full() returns,
\* the degraded result of compute_trust_score, and a dict holding a datetime
\* and a tuple.
ResultScored ==
    PyDict(<< <<"target", PyStr("a.io")>>, <<"score", PyInt(712)>>,
              <<"grade", PyStr("A")>>, <<"confidence", <<"float", "0.85", <<>>>> >>,
              <<"category_caps", PyDict(<< <<"existence_age", PyInt(300)>> >>)>>,
              <<"cap_applied", PyNone>>, <<"is_registered", PyBool(FALSE)>> >>)
ResultFailed ==
    PyDict(<< <<"score", PyInt(143)>>, <<"data_freshness", PyStr("failed")>>,
              <<"data_sources", <<"list", "", << PyStr("public_web") >> >> >> >>)
ResultForeign ==
    PyDict(<< <<"computed_at", <<"datetime", "2026-01-01 00:00:00", <<>>>> >>,
              <<"range", <<"tuple", "", << PyInt(0), PyInt(1000) >> >> >> >>)
CacheResults == {ResultScored, ResultFailed, ResultForeign}

\* the value holds only what json writes and reads back as it was
RECURSIVE JsonNative(_)
JsonNative(v) ==
    CASE v[1] \in {"int", "float", "str", "bool", "NoneType"} -> TRUE
      [] v[1] = "list" -> \A i \in DOMAIN v[3] : JsonNative(v[3][i])
      [] v[1] = "dict" -> \A i \in DOMAIN v[3] : JsonNative(v[3][i][2])
      [] OTHER -> FALSE

NoLast == [op |-> "none", target |-> <<>>, ok |-> FALSE, ret |-> PyNone,
           held_by |-> <<>>]
NoSet == [done |-> FALSE, target |-> <<>>, score_data |-> PyNone, ttl |-> 0,
          is_registered |-> FALSE, is_preview |-> FALSE, failed |-> FALSE,
          at |-> 0]
NoHolder == [target |-> <<>>, expires |-> 0]

\* the pipeline's part of the cache layer, which a direct caller leaves alone
vars_calls ==
    <<p_pc, p_args, p_lock_acquired, p_wake, p_result, p_ticks, h_ran,
      h_recheck_miss, h_answered>>

\* cache.set(target, score_data, is_registered, is_preview, failed)
CacheClientSet(m, target, score_data, is_registered, is_preview, failed, up) ==
    LET ttl == choose_ttl(is_registered, is_preview, failed)
        ok == command_ok(m, up)
    IN  /\ k_ops < MaxCacheOps
        /\ k_ops' = k_ops + 1
        /\ cache_set(m, target, json_dumps_value(stamped(score_data, ttl)),
                     is_registered, is_preview, failed, up)
        /\ connect_effect(m, up)
        /\ k_last' = [NoLast EXCEPT !.op = "set", !.target = target, !.ok = ok,
                                    !.ret = PyBool(ok)]
        /\ h_set' = IF ok
                      THEN [h_set EXCEPT ![HostOf(target)] =
                              [done |-> TRUE, target |-> target,
                               score_data |-> score_data, ttl |-> ttl,
                               is_registered |-> is_registered,
                               is_preview |-> is_preview, failed |-> failed,
                               at |-> now]]
                      ELSE h_set
        /\ UNCHANGED <<now, r_lock, h_grants, k_ticks, h_lock, vars_calls, k_up>>
        /\ UNCHANGED <<vars_breaker, vars_ledger, vars_orch, vars_score, vars_obs, vars_batch, vars_v2, vars_lake>>

\* cache.get(target)
CacheClientGet(m, target, up) ==
    LET raw == cache_get(m, target, up)
    IN  /\ k_ops < MaxCacheOps
        /\ k_ops' = k_ops + 1
        /\ connect_effect(m, up)
        /\ k_last' = [NoLast EXCEPT !.op = "get", !.target = target,
                                    !.ok = command_ok(m, up),
                                    !.ret = IF raw = <<>> THEN PyNone ELSE loaded(raw)]
        /\ UNCHANGED <<now, r_score, r_lock, h_grants, k_ticks, h_set, h_lock, vars_calls, k_up>>
        /\ UNCHANGED <<vars_breaker, vars_ledger, vars_orch, vars_score, vars_obs, vars_batch, vars_v2, vars_lake>>

\* ScoreCache.invalidate: the store after `client.delete(key)`
invalidate(m, target, up) ==
    r_score' = IF command_ok(m, up)
                 THEN [r_score EXCEPT ![_normalize_key(target)] = NoEntry]
                 ELSE r_score

\* cache.invalidate(target)
CacheClientInvalidate(m, target, up) ==
    LET ok == command_ok(m, up)
    IN  /\ k_ops < MaxCacheOps
        /\ k_ops' = k_ops + 1
        /\ invalidate(m, target, up)
        /\ connect_effect(m, up)
        /\ k_last' = [NoLast EXCEPT
                        !.op = "invalidate", !.target = target, !.ok = ok,
                        !.ret = PyBool(ok /\ KeyLive(r_score[_normalize_key(target)]))]
        /\ h_set' = IF ok THEN [h_set EXCEPT ![HostOf(target)] = NoSet] ELSE h_set
        /\ UNCHANGED <<now, r_lock, h_grants, k_ticks, h_lock, vars_calls, k_up>>
        /\ UNCHANGED <<vars_breaker, vars_ledger, vars_orch, vars_score, vars_obs, vars_batch, vars_v2, vars_lake>>

\* the spelling the live lock of the target's host was taken under, if any
Holder(target) ==
    LET h == h_lock[HostOf(target)]
    IN  IF now < h.expires THEN h.target ELSE <<>>

\* cache.acquire_lock(target)
CacheClientAcquire(m, target, up) ==
    LET ok == command_ok(m, up)
        got == lock_granted(m, target, up)
    IN  /\ k_ops < MaxCacheOps
        /\ k_ops' = k_ops + 1
        /\ acquire_lock(m, target, up)
        /\ connect_effect(m, up)
        /\ k_last' = [NoLast EXCEPT
                        !.op = "acquire_lock", !.target = target, !.ok = ok,
                        !.ret = PyBool(got), !.held_by = Holder(target)]
        /\ h_lock' = IF ok /\ got
                       THEN [h_lock EXCEPT ![HostOf(target)] =
                               [target |-> target,
                                expires |-> now + LOCK_TTL * 1000]]
                       ELSE h_lock
        /\ UNCHANGED <<now, r_score, k_ticks, h_set, vars_calls, k_up>>
        /\ UNCHANGED <<vars_breaker, vars_ledger, vars_orch, vars_score, vars_obs, vars_batch, vars_v2, vars_lake>>

\* cache.release_lock(target)
CacheClientRelease(m, target, up) ==
    LET ok == command_ok(m, up)
    IN  /\ k_ops < MaxCacheOps
        /\ k_ops' = k_ops + 1
        /\ release_lock(m, target, up)
        /\ connect_effect(m, up)
        /\ k_last' = [NoLast EXCEPT !.op = "release_lock", !.target = target,
                                    !.ok = ok]
        /\ h_lock' = IF ok THEN [h_lock EXCEPT ![HostOf(target)] = NoHolder]
                           ELSE h_lock
        /\ UNCHANGED <<now, r_score, h_grants, k_ticks, h_set, vars_calls, k_up>>
        /\ UNCHANGED <<vars_breaker, vars_ledger, vars_orch, vars_score, vars_obs, vars_batch, vars_v2, vars_lake>>

\* time passes: first the time to live of a lock, then, each time, the time
\* to live of a failed result
CacheClock ==
    /\ k_ticks < MaxCacheTicks
    /\ k_ticks' = k_ticks + 1
    /\ now' = now + (IF k_ticks = 0 THEN LOCK_TTL ELSE TTL_FAILED) * 1000
    /\ UNCHANGED <<c_enabled, c_client, r_score, r_lock, h_grants, k_last,
                   k_ops, h_set, h_lock, vars_calls, k_up>>
    /\ UNCHANGED <<vars_breaker, vars_ledger, vars_orch, vars_score, vars_obs, vars_batch, vars_v2, vars_lake>>

\* no direct caller has used the cache yet
CacheIdle ==
    /\ k_last = NoLast
    /\ k_ticks = 0
    /\ k_ops = 0
    /\ k_up = TRUE
    /\ h_set = [h \in CacheHosts |-> NoSet]
    /\ h_lock = [h \in CacheHosts |-> NoHolder]

-----------------------------------------------------------------------------
(* The pipeline entry points: compute_trust_score (app/compute/pipeline.py)
   and score_entity (app/compute/pipeline_v3.py) *)

NoArgs ==
    [entry |-> "none", target |-> <<>>, force_refresh |-> FALSE, is_preview |-> FALSE]

NoResult == [value |-> <<>>, source |-> "none", is_registered |-> FALSE]

\* A caller starts compute_trust_score(target, force_refresh, is_preview) or
\* score_entity(target, force_refresh). "Step 1: Check cache": unless the
\* refresh is forced, a hit is returned at once.
Call(p, m, target, force_refresh, is_preview, up) ==
    /\ p_pc[p] = "idle"
    /\ m = "score_entity" => ~is_preview
    /\ LET cached == cache_get(m, target, up)
           hit == ~force_refresh /\ cached # <<>>
       IN  /\ IF force_refresh
                THEN UNCHANGED <<c_enabled, c_client>>
                ELSE connect_effect(m, up)
           /\ p_pc' = [p_pc EXCEPT ![p] = IF hit THEN "done" ELSE "acquire"]
           /\ p_args' = [p_args EXCEPT ![p] =
                IF hit THEN NoArgs
                ELSE [entry |-> m, target |-> target,
                      force_refresh |-> force_refresh, is_preview |-> is_preview]]
           /\ p_result' = [p_result EXCEPT ![p] =
                IF hit THEN [NoResult EXCEPT !.value = cached, !.source = "cache"]
                ELSE @]
    /\ UNCHANGED <<now, r_score, r_lock, p_lock_acquired, p_wake,
                   p_ticks, h_ran, h_recheck_miss, h_grants,
                   h_answered>>
    /\ UNCHANGED <<vars_breaker, vars_ledger, vars_orch, vars_score, vars_obs, vars_cache, vars_batch, vars_v2, vars_lake>>

\* a sleep that lasts as long as the lock may live
lock_wait_until_expiry(t) == t + LOCK_TTL * 1000

\* `await asyncio.sleep(1.5)`: the time at which the waiter goes on
lock_wait_until(t) == t + LockWaitMs

\* "Step 2: Acquire lock": the holder goes on, everyone else sleeps 1.5 s
AcquireLock(p, up) ==
    /\ p_pc[p] = "acquire"
    /\ LET a == p_args[p]
           got == lock_granted(a.entry, a.target, up)
       IN  /\ acquire_lock(a.entry, a.target, up)
           /\ connect_effect(a.entry, up)
           /\ p_lock_acquired' = [p_lock_acquired EXCEPT ![p] = got]
           /\ p_pc' = [p_pc EXCEPT ![p] = IF got THEN "compute" ELSE "sleep"]
           /\ p_wake' = [p_wake EXCEPT ![p] = IF got THEN @ ELSE lock_wait_until(now)]
           /\ h_answered' = [h_answered EXCEPT ![p] = command_ok(a.entry, up)]
    /\ UNCHANGED <<now, r_score, p_args, p_result, p_ticks, h_ran,
                   h_recheck_miss>>
    /\ UNCHANGED <<vars_breaker, vars_ledger, vars_orch, vars_score, vars_obs, vars_cache, vars_batch, vars_v2, vars_lake>>

\* a waiter that goes on to compute whatever the cache holds
after_wait_compute(cached) == "compute"

\* after the sleep: `if cached: return cached`, else "compute anyway"
after_wait(cached) == IF cached # <<>> THEN "done" ELSE "compute"

\* the sleep is over: the cache is read again; a hit is returned (the lock is
\* not released on this path, nor on the first hit: both are outside `try`)
WakeRecheck(p, up) ==
    /\ p_pc[p] = "sleep"
    /\ now >= p_wake[p]
    /\ LET a == p_args[p]
           cached == cache_get(a.entry, a.target, up)
           returns == after_wait(cached) = "done"
       IN  /\ connect_effect(a.entry, up)
           /\ p_pc' = [p_pc EXCEPT ![p] = after_wait(cached)]
           /\ p_result' = [p_result EXCEPT ![p] =
                IF returns
                  THEN [NoResult EXCEPT !.value = cached,
                                        !.source = "cache_after_lock_wait"]
                  ELSE @]
           /\ h_recheck_miss' = [h_recheck_miss EXCEPT ![p] = (cached = <<>>)]
           /\ p_args' = [p_args EXCEPT ![p] = IF returns THEN NoArgs ELSE @]
           /\ p_wake' = [p_wake EXCEPT ![p] = 0]
           /\ h_answered' = [h_answered EXCEPT ![p] = IF returns THEN FALSE ELSE @]
    /\ UNCHANGED <<now, r_score, r_lock, p_lock_acquired, p_ticks,
                   h_ran, h_grants>>
    /\ UNCHANGED <<vars_breaker, vars_ledger, vars_orch, vars_score, vars_obs, vars_cache, vars_batch, vars_v2, vars_lake>>

\* `except Exception`: compute_trust_score builds a degraded result and caches
\* it as failed; score_entity builds a minimal response and caches nothing
Fallback(p, up) ==
    LET a == p_args[p]
    IN  IF a.entry = "compute_trust_score"
          THEN /\ cache_set(a.entry, a.target, <<"fallback", p>>,
                            FALSE, FALSE, TRUE, up)
               /\ connect_effect(a.entry, up)
               /\ p_result' = [p_result EXCEPT ![p] =
                     [NoResult EXCEPT !.value = <<"fallback", p>>,
                                      !.source = "fallback"]]
          ELSE /\ p_result' = [p_result EXCEPT ![p] =
                     [NoResult EXCEPT !.value = <<"error", p>>, !.source = "error"]]
               /\ UNCHANGED <<r_score, c_enabled, c_client>>

\* the registry lookup (or the parsing of the target) raises: no collector runs
LookupRaises(p, up) ==
    /\ p_pc[p] = "compute"
    /\ Fallback(p, up)
    /\ p_pc' = [p_pc EXCEPT ![p] = "release"]
    /\ UNCHANGED <<now, r_lock, p_args, p_lock_acquired, p_wake,
                   p_ticks, h_ran, h_recheck_miss, h_grants,
                   h_answered>>
    /\ UNCHANGED <<vars_breaker, vars_ledger, vars_orch, vars_score, vars_obs, vars_cache, vars_batch, vars_v2, vars_lake>>

\* Steps 3 to 5: the collectors are invoked and the result is scored
Collect(p, is_registered) ==
    /\ p_pc[p] = "compute"
    /\ p_args[p].entry = "score_entity" => ~is_registered
    /\ p_result' = [p_result EXCEPT ![p] =
         [value |-> <<"score", p>>, source |-> "computed",
          is_registered |-> is_registered]]
    /\ h_ran' = [h_ran EXCEPT ![p] = TRUE]
    /\ p_pc' = [p_pc EXCEPT ![p] = "collected"]
    /\ UNCHANGED <<now, c_enabled, c_client, r_score, r_lock, p_args,
                   p_lock_acquired, p_wake, p_ticks, h_recheck_miss, h_grants,
                   h_answered>>
    /\ UNCHANGED <<vars_breaker, vars_ledger, vars_orch, vars_score, vars_obs, vars_cache, vars_batch, vars_v2, vars_lake>>

\* scoring, or building the response, raises after the collectors ran
ScoreRaises(p, up) ==
    /\ p_pc[p] = "collected"
    /\ Fallback(p, up)
    /\ p_pc' = [p_pc EXCEPT ![p] = "release"]
    /\ UNCHANGED <<now, r_lock, p_args, p_lock_acquired, p_wake,
                   p_ticks, h_ran, h_recheck_miss, h_grants,
                   h_answered>>
    /\ UNCHANGED <<vars_breaker, vars_ledger, vars_orch, vars_score, vars_obs, vars_cache, vars_batch, vars_v2, vars_lake>>

\* "Step 6: Cache"
CacheSet(p, up) ==
    /\ p_pc[p] = "collected"
    /\ LET a == p_args[p]
       IN  /\ cache_set(a.entry, a.target, p_result[p].value,
                        p_result[p].is_registered, a.is_preview, FALSE, up)
           /\ connect_effect(a.entry, up)
    /\ p_pc' = [p_pc EXCEPT ![p] = "release"]
    /\ UNCHANGED <<now, r_lock, p_args, p_lock_acquired, p_wake,
                   p_result, p_ticks, h_ran, h_recheck_miss, h_grants,
                   h_answered>>
    /\ UNCHANGED <<vars_breaker, vars_ledger, vars_orch, vars_score, vars_obs, vars_cache, vars_batch, vars_v2, vars_lake>>

\* `finally: cache.release_lock(target)`, and the return: the call's
\* arguments and locals are gone, its result stays with the caller
ReleaseLock(p, up) ==
    /\ p_pc[p] = "release"
    /\ release_lock(p_args[p].entry, p_args[p].target, up)
    /\ connect_effect(p_args[p].entry, up)
    /\ p_pc' = [p_pc EXCEPT ![p] = "done"]
    /\ p_args' = [p_args EXCEPT ![p] = NoArgs]
    /\ p_lock_acquired' = [p_lock_acquired EXCEPT ![p] = FALSE]
    /\ h_recheck_miss' = [h_recheck_miss EXCEPT ![p] = FALSE]
    /\ h_answered' = [h_answered EXCEPT ![p] = FALSE]
    /\ UNCHANGED <<now, r_score, p_wake, p_result, p_ticks, h_ran, h_grants>>
    /\ UNCHANGED <<vars_breaker, vars_ledger, vars_orch, vars_score, vars_obs, vars_cache, vars_batch, vars_v2, vars_lake>>

\* time passes: first the length of a lock wait, then, each time, the time
\* to live of a lock
PipeClock ==
    /\ p_ticks < MaxPipeTicks
    /\ p_ticks' = p_ticks + 1
    /\ now' = now + (IF p_ticks = 0 THEN LockWaitMs ELSE LOCK_TTL * 1000)
    /\ UNCHANGED <<c_enabled, c_client, r_score, r_lock, p_pc, p_args,
                   p_lock_acquired, p_wake, p_result, h_ran, h_recheck_miss,
                   h_grants,
                   h_answered>>
    /\ UNCHANGED <<vars_breaker, vars_ledger, vars_orch, vars_score, vars_obs, vars_cache, vars_batch, vars_v2, vars_lake>>

\* the sleeps that are not over yet
Sleepers == {p \in Calls : p_pc[p] = "sleep" /\ p_wake[p] > now}

\* time passes until the earliest sleep is over
PipeSleepEnds ==
    /\ Sleepers # {}
    /\ now' = CHOOSE t \in {p_wake[p] : p \in Sleepers} :
                  \A p \in Sleepers : t <= p_wake[p]
    /\ UNCHANGED <<c_enabled, c_client, r_score, r_lock, p_pc, p_args,
                   p_lock_acquired, p_wake, p_result, p_ticks, h_ran,
                   h_recheck_miss, h_grants, h_answered>>
    /\ UNCHANGED <<vars_breaker, vars_ledger, vars_orch, vars_score, vars_obs, vars_cache, vars_batch, vars_v2, vars_lake>>

\* the lock keys that have not run out yet
LiveLocks == {k \in Keys : KeyLive(r_lock[k])}

\* time passes until the earliest lock key has run out
PipeLockExpires ==
    /\ LiveLocks # {}
    /\ now' = CHOOSE t \in {r_lock[k].expires : k \in LiveLocks} :
                  \A k \in LiveLocks : t <= r_lock[k].expires
    /\ UNCHANGED <<c_enabled, c_client, r_score, r_lock, p_pc, p_args,
                   p_lock_acquired, p_wake, p_result, p_ticks, h_ran,
                   h_recheck_miss, h_grants, h_answered>>
    /\ UNCHANGED <<vars_breaker, vars_ledger, vars_orch, vars_score, vars_obs, vars_cache, vars_batch, vars_v2, vars_lake>>

\* a target str.encode("utf-8") refuses: a lone surrogate, "\ud800"
TargetSurrogate == <<"U+D800">>
Encodable(target) == \A i \in DOMAIN target : target[i] # "U+D800"
CallTargets == {TargetPlain, TargetSurrogate}

\* The call starts like any other when its target can be encoded, and when
\* it cannot but nothing encodes it: score_entity whose cache.get finds no
\* client to be had (the cache is disabled from then on, every operation
\* returns before it builds a key, and the `except` of score_entity does not
\* touch the target).
StartsPlainly(m, target, force_refresh, up) ==
    \/ Encodable(target)
    \/ m = "score_entity" /\ ~force_refresh /\ ~connect_ok(m, up)

\* the call with the unencodable target raises to its caller
StartsRaising(m, target, up) ==
    ~Encodable(target) /\ (m = "compute_trust_score" \/ connect_ok(m, up))

\* A call whose target cannot be encoded, otherwise: with a client,
\* _normalize_key raises in the first operation of the cache (get, or
\* acquire_lock when the refresh is forced), outside every `try`; without
\* one, compute_trust_score reaches `target.lower().encode()` inside `try`,
\* and its `except` raises on `target.encode()`. The exception reaches the
\* caller either way.
CallRaises(p, m, target, force_refresh, is_preview, up) ==
    /\ p_pc[p] = "idle"
    /\ m = "score_entity" => ~is_preview
    /\ StartsRaising(m, target, up)
    /\ connect_effect(m, up)
    /\ p_pc' = [p_pc EXCEPT ![p] = "raised"]
    /\ p_result' = [p_result EXCEPT ![p] = [NoResult EXCEPT !.source = "exception"]]
    /\ p_args' = [p_args EXCEPT ![p] =
         [entry |-> m, target |-> target, force_refresh |-> force_refresh,
          is_preview |-> is_preview]]
    /\ UNCHANGED <<now, r_score, r_lock, p_lock_acquired, p_wake,
                   p_ticks, h_ran, h_recheck_miss, h_grants, h_answered>>
    /\ UNCHANGED <<vars_breaker, vars_ledger, vars_orch, vars_score, vars_obs, vars_cache, vars_batch, vars_v2, vars_lake>>

\* a refresh job calls cache.invalidate(target) between the calls
Invalidate(m, target, up) ==
    /\ invalidate(m, target, up)
    /\ connect_effect(m, up)
    /\ UNCHANGED <<now, r_lock, h_grants, vars_calls>>
    /\ UNCHANGED <<vars_breaker, vars_ledger, vars_orch, vars_score, vars_obs, vars_cache, vars_batch, vars_v2, vars_lake>>

\* the store becomes unreachable, or reachable again
StoreFlips ==
    /\ k_up' = ~k_up
    /\ UNCHANGED <<k_last, k_ticks, k_ops, h_set, h_lock>>
    /\ UNCHANGED <<now, vars_breaker, vars_ledger, vars_pipe, vars_orch, vars_score, vars_obs, vars_batch, vars_v2, vars_lake>>

\* the cache layer before any call
PipeIdle ==
    /\ c_enabled = [m \in Modules |-> TRUE]
    /\ c_client = [m \in Modules |-> FALSE]
    /\ r_score = [k \in Keys |-> NoEntry]
    /\ r_lock = [k \in Keys |-> NoLock]
    /\ p_pc = [p \in Calls |-> "idle"]
    /\ p_args = [p \in Calls |-> NoArgs]
    /\ p_lock_acquired = [p \in Calls |-> FALSE]
    /\ p_wake = [p \in Calls |-> 0]
    /\ p_result = [p \in Calls |-> NoResult]
    /\ p_ticks = 0
    /\ h_ran = [p \in Calls |-> FALSE]
    /\ h_recheck_miss = [p \in Calls |-> FALSE]
    /\ h_grants = [k \in Keys |-> 0]
    /\ h_answered = [p \in Calls |-> FALSE]

-----------------------------------------------------------------------------
(* The collection orchestrator: _collect_with_breakers (app/compute/pipeline.py) *)

\* "One circuit breaker per collector"
_breakers ==
    [dns        |-> [threshold |-> 5, recovery_timeout |-> 120],
     web        |-> [threshold |-> 3, recovery_timeout |-> 60],
     social     |-> [threshold |-> 5, recovery_timeout |-> 120],
     knowledge  |-> [threshold |-> 3, recovery_timeout |-> 60],
     github     |-> [threshold |-> 5, recovery_timeout |-> 180],
     reputation |-> [threshold |-> 3, recovery_timeout |-> 60],
     blocklist  |-> [threshold |-> 3, recovery_timeout |-> 60]]

\* The tasks in the order _collect_with_breakers appends them.
AllCollectors ==
    <<"dns", "web", "blocklist", "social", "knowledge", "github", "reputation">>

\* the collectors that are given a task only `if eid.domain`
DomainCollectors == {"dns", "web", "blocklist"}

\* The collectors the orchestrator specification follows: one that needs a
\* domain and one that runs for every target.
OrchCollectors == {"web", "knowledge"}

\* the task list of one run
OrchTasks(has_domain) ==
    SelectSeq(AllCollectors,
              LAMBDA c : c \in OrchCollectors /\ (has_domain \/ c \notin DomainCollectors))

\* what a collector returns when it succeeds
OrchPayloads(c) ==
    IF c = "web" THEN {[has_structured_data |-> TRUE]}
    ELSE {[has_wikipedia_page |-> TRUE], [has_wikipedia_page |-> FALSE]}

\* CircuitBreaker.__init__ for the breaker of collector c
NewBreaker(c) ==
    [threshold |-> _breakers[c].threshold,
     recovery_timeout |-> _breakers[c].recovery_timeout,
     failures |-> 0, last_failure_time |-> 0, state |-> "closed"]

\* a gate that lets every call through
breaker_can_execute_always(b) == TRUE

\* CircuitBreaker.can_execute on breaker b: the value it returns
breaker_can_execute(b) ==
    IF b.state = "closed" THEN TRUE
    ELSE IF b.state = "open" THEN now - b.last_failure_time > b.recovery_timeout
    ELSE TRUE

\* CircuitBreaker.can_execute on breaker b: the breaker it leaves
breaker_after_can_execute(b) ==
    IF b.state = "open" /\ now - b.last_failure_time > b.recovery_timeout
      THEN [b EXCEPT !.state = "half-open"] ELSE b

\* CircuitBreaker.record_success on breaker b
breaker_record_success(b) == [b EXCEPT !.failures = 0, !.state = "closed"]

\* CircuitBreaker.record_failure on breaker b
breaker_record_failure(b) ==
    [b EXCEPT !.failures = @ + 1,
              !.last_failure_time = now,
              !.state = IF b.failures + 1 >= b.threshold THEN "open" ELSE @]

NoItem == <<>>
EmptyMeta == [data_sources |-> <<>>, skipped |-> <<>>, errors |-> <<>>]

\* _collect_with_breakers up to asyncio.gather: the metadata is fresh and a
\* task is created for every collector of the target.
OrchStart(has_domain) ==
    /\ o_run \in {"idle", "returned"}
    /\ o_run' = "gathering"
    /\ o_tasks' = OrchTasks(has_domain)
    /\ o_task' = [c \in OrchCollectors |-> "pending"]
    /\ o_item' = [c \in OrchCollectors |-> NoItem]
    /\ o_meta' = EmptyMeta
    /\ o_results' = <<>>
    /\ h_awaited' = [c \in OrchCollectors |-> FALSE]
    /\ h_outcome' = [c \in OrchCollectors |-> "none"]
    /\ UNCHANGED <<now, o_br>>
    /\ UNCHANGED <<vars_breaker, vars_ledger, vars_pipe, vars_score, vars_obs, vars_cache, vars_batch, vars_v2, vars_lake>>

InTasks(c) == \E i \in DOMAIN o_tasks : o_tasks[i] = c

\* _guarded, up to the await: a refused collector is recorded as skipped and
\* returns (name, {}); an admitted one is awaited.
OrchGuardedEnter(c) ==
    /\ o_run = "gathering" /\ InTasks(c)
    /\ o_task[c] = "pending"
    /\ IF breaker_can_execute(o_br[c])
         THEN /\ o_br' = [o_br EXCEPT ![c] = breaker_after_can_execute(@)]
              /\ o_task' = [o_task EXCEPT ![c] = "running"]
              /\ h_awaited' = [h_awaited EXCEPT ![c] = TRUE]
              /\ UNCHANGED <<o_meta, o_item, h_outcome>>
         ELSE /\ o_meta' = [o_meta EXCEPT !.skipped = Append(@, c)]
              /\ o_item' = [o_item EXCEPT ![c] = <<c, <<>>>>]
              /\ o_task' = [o_task EXCEPT ![c] = "returned"]
              /\ h_outcome' = [h_outcome EXCEPT ![c] = "refused"]
              /\ UNCHANGED <<o_br, h_awaited>>
    /\ UNCHANGED <<now, o_run, o_tasks, o_results>>
    /\ UNCHANGED <<vars_breaker, vars_ledger, vars_pipe, vars_score, vars_obs, vars_cache, vars_batch, vars_v2, vars_lake>>

\* a _guarded that returns every collector's data under one name
guarded_return_shared(c, data) == <<"collector", data>>

\* _guarded: `return name, result`
guarded_return(c, data) == <<c, data>>

\* _guarded: the collector returned its signals within the timeout
OrchGuardedSuccess(c, data) ==
    /\ o_run = "gathering" /\ o_task[c] = "running"
    /\ o_br' = [o_br EXCEPT ![c] = breaker_record_success(@)]
    /\ o_meta' = [o_meta EXCEPT !.data_sources = Append(@, c)]
    /\ o_item' = [o_item EXCEPT ![c] = guarded_return(c, data)]
    /\ o_task' = [o_task EXCEPT ![c] = "returned"]
    /\ h_outcome' = [h_outcome EXCEPT ![c] = "success"]
    /\ UNCHANGED <<now, o_run, o_tasks, o_results, h_awaited>>
    /\ UNCHANGED <<vars_breaker, vars_ledger, vars_pipe, vars_score, vars_obs, vars_cache, vars_batch, vars_v2, vars_lake>>

\* a failure handler that records the failure on every breaker
orch_breakers_after_failure_all(c) ==
    [d \in OrchCollectors |-> breaker_record_failure(o_br[d])]

\* `if breaker: breaker.record_failure()`: the breakers after collector c failed
orch_breakers_after_failure(c) ==
    [o_br EXCEPT ![c] = breaker_record_failure(@)]

\* _guarded: asyncio.TimeoutError (kind "timeout") or another Exception
\* (kind "error") ended the collector
OrchGuardedFailure(c, kind) ==
    /\ o_run = "gathering" /\ o_task[c] = "running"
    /\ o_br[c].failures < MaxFailures
    /\ o_br' = orch_breakers_after_failure(c)
    /\ o_meta' = [o_meta EXCEPT !.errors = Append(@, <<c, kind>>)]
    /\ o_item' = [o_item EXCEPT ![c] = <<c, <<>>>>]
    /\ o_task' = [o_task EXCEPT ![c] = "returned"]
    /\ h_outcome' = [h_outcome EXCEPT ![c] = kind]
    /\ UNCHANGED <<now, o_run, o_tasks, o_results, h_awaited>>
    /\ UNCHANGED <<vars_breaker, vars_ledger, vars_pipe, vars_score, vars_obs, vars_cache, vars_batch, vars_v2, vars_lake>>

\* "Merge results": `results[name] = data` for every item of results_list,
\* which asyncio.gather hands back in the order of the tasks
RECURSIVE merge_results(_)
merge_results(items) ==
    IF items = <<>> THEN <<>>
    ELSE LET results == merge_results(SubSeq(items, 1, Len(items) - 1))
             item == items[Len(items)]
         IN  [n \in DOMAIN results \cup {item[1]} |->
                IF n = item[1] THEN item[2] ELSE results[n]]

\* results.get(name, {}).get(key, False)
ResultFlag(results, name, key) ==
    IF name \in DOMAIN results /\ key \in DOMAIN results[name]
      THEN results[name][key] ELSE FALSE

\* "Build signal objects": the fields the collectors of the model fill
build_signals(results) ==
    [has_structured_data |-> ResultFlag(results, "web", "has_structured_data"),
     has_wikipedia_page |-> ResultFlag(results, "knowledge", "has_wikipedia_page")]

\* "Merge results": every task returned a (name, data) pair, gather is over
\* and the orchestrator goes on to build the signal objects and return
OrchMerge ==
    /\ o_run = "gathering"
    /\ \A i \in DOMAIN o_tasks : o_task[o_tasks[i]] = "returned"
    /\ o_results' = merge_results([i \in DOMAIN o_tasks |-> o_item[o_tasks[i]]])
    /\ o_run' = "returned"
    /\ UNCHANGED <<now, o_br, o_tasks, o_task, o_item, o_meta, h_awaited, h_outcome>>
    /\ UNCHANGED <<vars_breaker, vars_ledger, vars_pipe, vars_score, vars_obs, vars_cache, vars_batch, vars_v2, vars_lake>>

\* time passes between and during the runs
OrchClock ==
    /\ now + BreakerTick <= MaxBreakerTime
    /\ now' = now + BreakerTick
    /\ UNCHANGED <<vars_breaker, vars_ledger, vars_pipe, vars_orch, vars_score, vars_obs, vars_cache, vars_batch, vars_v2, vars_lake>>

\* the module as imported: the breakers as constructed, no run yet
OrchIdle ==
    /\ o_br = [c \in OrchCollectors |-> NewBreaker(c)]
    /\ o_run = "idle"
    /\ o_tasks = <<>>
    /\ o_task = [c \in OrchCollectors |-> "pending"]
    /\ o_item = [c \in OrchCollectors |-> NoItem]
    /\ o_meta = EmptyMeta
    /\ o_results = <<>>
    /\ h_awaited = [c \in OrchCollectors |-> FALSE]
    /\ h_outcome = [c \in OrchCollectors |-> "none"]

-----------------------------------------------------------------------------
(* The scoring engine: app/trust/engine_v3.py *)

\* RawSignals(): every signal at its default.  Texts are sequences of
\* characters; domain_expiry_years_ahead, a float, is counted in tenths of a
\* year.
RawSignalsDefault ==
    [domain_age_days |-> 0, whois_org |-> <<>>, domain_expiry_years_ahead |-> 0,
     ssl_valid |-> FALSE, ssl_cert_type |-> "", ssl_org |-> <<>>,
     first_cert_days_ago |-> 0, total_certs_issued |-> 0,
     vt_malicious_count |-> 0, vt_suspicious_count |-> 0,
     vt_community_score |-> 0, vt_queried |-> FALSE,
     gsb_flagged |-> FALSE, gsb_queried |-> FALSE,
     dns_has_spf |-> FALSE, dns_has_dmarc |-> FALSE, dns_has_dkim |-> FALSE,
     dns_has_dnssec |-> FALSE, dns_has_mx |-> FALSE,
     http_has_hsts |-> FALSE, http_has_csp |-> FALSE, http_has_xframe |-> FALSE,
     http_has_xcontent_type |-> FALSE, http_has_referrer_policy |-> FALSE,
     http_has_permissions_policy |-> FALSE,
     has_wikipedia |-> FALSE, has_wikidata |-> FALSE, has_crunchbase |-> FALSE,
     social_twitter |-> FALSE, social_linkedin |-> FALSE, social_github |-> FALSE,
     social_count |-> 0,
     tranco_rank |-> 0,
     has_structured_data |-> FALSE, has_org_schema |-> FALSE,
     has_status_page |-> FALSE, has_api_docs |-> FALSE, has_changelog |-> FALSE,
     has_security_txt |-> FALSE, has_robots_txt |-> FALSE,
     on_fraud_blocklist |-> FALSE, on_sanctions_list |-> FALSE,
     sources_queried |-> <<>>, sources_responded |-> <<>>,
     collection_errors |-> <<>>]

_EA_CAP == 300
_SI_CAP == 300
_RS_CAP == 250
_OM_CAP == 150

Min(a, b) == IF a <= b THEN a ELSE b
Max(a, b) == IF a >= b THEN a ELSE b

\* a clamp that forgets the floor
clamp_cap_only(raw, cap) == Min(raw, cap)

\* `min(max(raw, 0), cap)`
clamp(raw, cap) == Min(Max(raw, 0), cap)

\* `text.lower()[:8]`
LowerPrefix8(text) == SubSeq(Lower(text), 1, Min(Len(text), 8))

\* the sum of the breakdown of score_existence_and_age
existence_and_age_raw(s) ==
      (IF s.domain_age_days > 3650 THEN 80
       ELSE IF s.domain_age_days > 1825 THEN 60
       ELSE IF s.domain_age_days > 730 THEN 40
       ELSE IF s.domain_age_days > 365 THEN 25
       ELSE IF s.domain_age_days > 90 THEN 10
       ELSE IF s.domain_age_days > 0 /\ s.domain_age_days < 30 THEN -50
       ELSE 0)
    + (IF s.ssl_valid THEN 15 ELSE 0)
    + (IF s.first_cert_days_ago > 1825 THEN 30
       ELSE IF s.first_cert_days_ago > 730 THEN 20
       ELSE IF s.first_cert_days_ago > 365 THEN 10
       ELSE 0)
    + (IF s.ssl_cert_type = "EV" THEN 25
       ELSE IF s.ssl_cert_type = "OV" THEN 10
       ELSE 0)
    + (IF s.has_wikipedia THEN 50 ELSE 0)
    + (IF s.has_wikidata THEN 30 ELSE 0)
    + (IF s.has_crunchbase THEN 20 ELSE 0)
    + (IF /\ s.whois_org # <<>>
          /\ s.ssl_org # <<>>
          /\ LowerPrefix8(s.whois_org) = LowerPrefix8(s.ssl_org)
         THEN 20 ELSE 0)
    + (IF s.domain_expiry_years_ahead >= 30 THEN 15
       ELSE IF s.domain_expiry_years_ahead >= 10 THEN 5
       ELSE 0)

score_existence_and_age(s) == clamp(existence_and_age_raw(s), _EA_CAP)

\* the sum of the breakdown of score_security_and_integrity
security_and_integrity_raw(s) ==
      (IF s.vt_queried
         THEN LET flagged == s.vt_malicious_count + s.vt_suspicious_count
              IN  IF flagged = 0 THEN 100
                  ELSE IF flagged <= 2 THEN 40
                  ELSE IF flagged <= 5 THEN -50
                  ELSE -200
         ELSE 0)
    + (IF s.gsb_queried
         THEN (IF ~s.gsb_flagged THEN 30 ELSE -200)
         ELSE 0)
    + (IF s.dns_has_spf THEN 25 ELSE 0)
    + (IF s.dns_has_dmarc THEN 30 ELSE 0)
    + (IF s.dns_has_dkim THEN 15 ELSE 0)
    + (IF s.dns_has_dnssec THEN 20 ELSE 0)
    + (IF s.http_has_hsts THEN 20 ELSE 0)
    + (IF s.http_has_csp THEN 20 ELSE 0)
    + (IF s.http_has_xframe THEN 10 ELSE 0)
    + (IF s.http_has_xcontent_type THEN 10 ELSE 0)
    + (IF s.http_has_referrer_policy THEN 10 ELSE 0)
    + (IF s.http_has_permissions_policy THEN 10 ELSE 0)

score_security_and_integrity(s) == clamp(security_and_integrity_raw(s), _SI_CAP)

\* the sum of the breakdown of score_reputation_and_scale
reputation_and_scale_raw(s) ==
      (IF s.tranco_rank > 0
         THEN (IF s.tranco_rank <= 100 THEN 100
               ELSE IF s.tranco_rank <= 1000 THEN 80
               ELSE IF s.tranco_rank <= 10000 THEN 60
               ELSE IF s.tranco_rank <= 100000 THEN 40
               ELSE IF s.tranco_rank <= 500000 THEN 20
               ELSE 10)
         ELSE 0)
    + (IF s.vt_community_score > 0 THEN Min(s.vt_community_score * 3, 30) ELSE 0)
    + (IF s.social_twitter THEN 10 ELSE 0)
    + (IF s.social_linkedin THEN 15 ELSE 0)
    + (IF s.social_github THEN 15 ELSE 0)
    + (IF s.social_count >= 4 THEN 20 ELSE 0)

score_reputation_and_scale(s) == clamp(reputation_and_scale_raw(s), _RS_CAP)

\* the sum of the breakdown of score_operational_maturity
operational_maturity_raw(s) ==
      (IF s.has_structured_data THEN 15 ELSE 0)
    + (IF s.has_org_schema THEN 15 ELSE 0)
    + (IF s.has_status_page THEN 25 ELSE 0)
    + (IF s.has_api_docs THEN 20 ELSE 0)
    + (IF s.has_changelog THEN 15 ELSE 0)
    + (IF s.has_security_txt THEN 15 ELSE 0)
    + (IF s.total_certs_issued > 5 THEN 15 ELSE 0)
    + (IF s.dns_has_mx THEN 15 ELSE 0)
    + (IF s.has_robots_txt THEN 15 ELSE 0)

score_operational_maturity(s) == clamp(operational_maturity_raw(s), _OM_CAP)

\* Python's None, as the value of cap_applied
None == "None"

\* a ceiling that replaces the score
capped_to_ceiling(score, ceiling) == ceiling

\* `min(score, ceiling)`
capped(score, ceiling) == Min(score, ceiling)

\* a test for new domains that only looks at domains younger than 5 days
new_domain_no_reputation_younger(s) ==
    s.domain_age_days > 0 /\ s.domain_age_days < 5 /\ s.tranco_rank = 0

\* the last condition of apply_hard_caps
new_domain_no_reputation(s) ==
    s.domain_age_days > 0 /\ s.domain_age_days < 30 /\ s.tranco_rank = 0

\* hard caps that look at Safe Browsing before the blocklists
apply_hard_caps_gsb_first(score, s) ==
    IF s.gsb_queried /\ s.gsb_flagged
      THEN <<capped(score, 150), "GOOGLE_SAFE_BROWSING_FLAGGED">>
    ELSE IF s.on_sanctions_list THEN <<0, "SANCTIONED">>
    ELSE IF s.on_fraud_blocklist THEN <<capped(score, 50), "FRAUD_BLOCKLISTED">>
    ELSE IF s.vt_queried /\ (s.vt_malicious_count + s.vt_suspicious_count) >= 6
      THEN <<capped(score, 200), "VIRUSTOTAL_HIGH_FLAGS">>
    ELSE IF new_domain_no_reputation(s)
      THEN <<capped(score, 100), "NEW_DOMAIN_NO_REPUTATION">>
    ELSE <<score, None>>

\* apply_hard_caps: the first condition that holds decides
apply_hard_caps(score, s) ==
    IF s.on_sanctions_list THEN <<0, "SANCTIONED">>
    ELSE IF s.on_fraud_blocklist THEN <<capped(score, 50), "FRAUD_BLOCKLISTED">>
    ELSE IF s.gsb_queried /\ s.gsb_flagged
      THEN <<capped(score, 150), "GOOGLE_SAFE_BROWSING_FLAGGED">>
    ELSE IF s.vt_queried /\ (s.vt_malicious_count + s.vt_suspicious_count) >= 6
      THEN <<capped(score, 200), "VIRUSTOTAL_HIGH_FLAGS">>
    ELSE IF new_domain_no_reputation(s)
      THEN <<capped(score, 100), "NEW_DOMAIN_NO_REPUTATION">>
    ELSE <<score, None>>

grade_of(final_score) ==
    IF final_score >= 850 THEN "AAA"
    ELSE IF final_score >= 750 THEN "AA"
    ELSE IF final_score >= 650 THEN "A"
    ELSE IF final_score >= 550 THEN "BBB"
    ELSE IF final_score >= 450 THEN "BB"
    ELSE IF final_score >= 350 THEN "B"
    ELSE IF final_score >= 200 THEN "CCC"
    ELSE "D"

\* a recommendation that says PROCEED from 550 on
recommendation_of_lenient(final_score) ==
    IF final_score >= 550 THEN "PROCEED"
    ELSE IF final_score >= 450 THEN "PROCEED_WITH_CAUTION"
    ELSE IF final_score >= 350 THEN "MANUAL_REVIEW"
    ELSE IF final_score >= 200 THEN "ENHANCED_DUE_DILIGENCE"
    ELSE "REJECT"

recommendation_of(final_score) ==
    IF final_score >= 650 THEN "PROCEED"
    ELSE IF final_score >= 450 THEN "PROCEED_WITH_CAUTION"
    ELSE IF final_score >= 350 THEN "MANUAL_REVIEW"
    ELSE IF final_score >= 200 THEN "ENHANCED_DUE_DILIGENCE"
    ELSE "REJECT"

\* `total_sources = 9`
total_sources == 9

\* `confidence = responded / total_sources`: the quotient, as the pair of
\* its numerator and denominator
confidence_of(s) == <<Len(s.sources_responded), total_sources>>

\* `confidence >= 0.8`, `confidence >= 0.5`
confidence_label_of(confidence) ==
    IF 10 * confidence[1] >= 8 * confidence[2] THEN "high"
    ELSE IF 10 * confidence[1] >= 5 * confidence[2] THEN "moderate"
    ELSE "low"

\* `raw_score = int(ea + si + rs + om)`: the sub-scores are integers
raw_score_of(signals) ==
      score_existence_and_age(signals) + score_security_and_integrity(signals)
    + score_reputation_and_scale(signals) + score_operational_maturity(signals)

compute_score(signals) ==
    LET ea == score_existence_and_age(signals)
        si == score_security_and_integrity(signals)
        rs == score_reputation_and_scale(signals)
        om == score_operational_maturity(signals)
        capped_score == apply_hard_caps(raw_score_of(signals), signals)
    IN  [score |-> capped_score[1],
         grade |-> grade_of(capped_score[1]),
         recommendation |-> recommendation_of(capped_score[1]),
         existence_age |-> ea,
         security_integrity |-> si,
         reputation_scale |-> rs,
         operational_maturity |-> om,
         confidence |-> confidence_of(signals),
         confidence_label |-> confidence_label_of(confidence_of(signals)),
         sources_used |-> Len(signals.sources_responded),
         sources_total |-> total_sources,
         cap_applied |-> capped_score[2]]

\* TrustScoreResult.to_preview: what the free tier is told (the target, the
\* rounded confidence, the version and the message are left out)
to_preview(r) ==
    [score |-> r.score, grade |-> r.grade, recommendation |-> r.recommendation,
     confidence_label |-> r.confidence_label,
     is_verified |-> r.score >= 650, is_registered |-> FALSE]

\* TrustScoreResult.to_full: the same with the four pillars and the cap
to_full(r) ==
    [score |-> r.score, grade |-> r.grade, recommendation |-> r.recommendation,
     confidence_label |-> r.confidence_label,
     existence_age_score |-> r.existence_age,
     security_integrity_score |-> r.security_integrity,
     reputation_scale_score |-> r.reputation_scale,
     operational_maturity_score |-> r.operational_maturity,
     sources_used |-> r.sources_used, sources_total |-> r.sources_total,
     cap_applied |-> r.cap_applied,
     is_verified |-> r.score >= 650, is_registered |-> FALSE]

\* the values of Sensor that observe_entity queries, in its order
SensorNames ==
    <<"tranco", "crtsh", "virustotal", "dns", "http_headers", "whois",
      "web_presence", "knowledge_graph", "social">>

OrgAcmeHolding == <<"A", "c", "m", "e", " ", "H", "o", "l", "d", "i">>
OrgAcmeHolt    == <<"a", "c", "m", "e", " ", "h", "o", "l", "t", "d">>
OrgApex        == <<"A", "p", "e", "x">>

\* the values a caller can give each signal
SignalValues ==
    [f \in DOMAIN RawSignalsDefault |->
        CASE f = "domain_age_days" -> {0, 5, 29, 30, 91, 366, 731, 1826, 4000}
          [] f = "first_cert_days_ago" -> {0, 366, 731, 1826}
          [] f = "total_certs_issued" -> {0, 6}
          [] f = "domain_expiry_years_ahead" -> {0, 10, 30}
          [] f = "ssl_cert_type" -> {"", "DV", "OV", "EV"}
          [] f \in {"whois_org", "ssl_org"} -> {<<>>, OrgAcmeHolding, OrgAcmeHolt, OrgApex}
          [] f = "vt_malicious_count" -> {0, 1, 3, 6}
          [] f = "vt_suspicious_count" -> {0, 2}
          [] f = "vt_community_score" -> {0, 5, 20}
          [] f = "social_count" -> {0, 4}
          [] f = "tranco_rank" -> {0, 50, 500, 5000, 50000, 400000, 900000}
          [] f = "sources_queried" -> {<<>>, SensorNames}
          [] f = "sources_responded" ->
                {SubSeq(SensorNames, 1, n) : n \in {0, 4, 5, 7, 8, 9}}
          [] f = "collection_errors" -> {<<>>}
          [] OTHER -> BOOLEAN]

\* the example of a long-established, clean domain
SignalsExampleSafe ==
    [RawSignalsDefault EXCEPT
        !.domain_age_days = 4000, !.ssl_valid = TRUE,
        !.dns_has_spf = TRUE, !.dns_has_dmarc = TRUE,
        !.tranco_rank = 500, !.vt_malicious_count = 0,
        !.sources_queried = SensorNames, !.sources_responded = SensorNames]

\* every positive signal present
SignalsAllPositive ==
    [f \in DOMAIN RawSignalsDefault |->
        CASE f = "domain_age_days" -> 4000
          [] f = "first_cert_days_ago" -> 1826
          [] f = "total_certs_issued" -> 6
          [] f = "domain_expiry_years_ahead" -> 30
          [] f = "ssl_cert_type" -> "EV"
          [] f = "whois_org" -> OrgAcmeHolding
          [] f = "ssl_org" -> OrgAcmeHolt
          [] f = "vt_community_score" -> 20
          [] f = "social_count" -> 4
          [] f = "tranco_rank" -> 50
          [] f \in {"vt_queried", "gsb_queried"} -> TRUE
          [] f \in {"sources_queried", "sources_responded"} -> SensorNames
          [] f \in {"vt_malicious_count", "vt_suspicious_count"} -> 0
          [] f \in {"gsb_flagged", "on_fraud_blocklist", "on_sanctions_list"} -> FALSE
          [] f = "collection_errors" -> <<>>
          [] OTHER -> TRUE]

\* a domain registered five days ago with every DNS record and header
SignalsNewDomain ==
    [RawSignalsDefault EXCEPT
        !.domain_age_days = 5, !.tranco_rank = 0, !.ssl_valid = TRUE,
        !.dns_has_spf = TRUE, !.dns_has_dmarc = TRUE, !.dns_has_dkim = TRUE,
        !.dns_has_dnssec = TRUE, !.dns_has_mx = TRUE,
        !.http_has_hsts = TRUE, !.http_has_csp = TRUE, !.http_has_xframe = TRUE,
        !.http_has_xcontent_type = TRUE, !.http_has_referrer_policy = TRUE,
        !.http_has_permissions_policy = TRUE,
        !.sources_queried = SensorNames, !.sources_responded = SensorNames]

\* a well-known name on a domain registered five days ago
SignalsNewDomainKnownName ==
    [SignalsAllPositive EXCEPT !.domain_age_days = 5, !.tranco_rank = 0]

\* every positive signal, and the fraud blocklist
SignalsBlocklisted == [SignalsAllPositive EXCEPT !.on_fraud_blocklist = TRUE]

\* every positive signal but those of reputation: no rank, no knowledge
\* graph entry, no social profile
SignalsNoReputation ==
    [SignalsAllPositive EXCEPT
        !.tranco_rank = 0, !.has_wikipedia = FALSE, !.has_wikidata = FALSE,
        !.has_crunchbase = FALSE, !.social_twitter = FALSE,
        !.social_linkedin = FALSE, !.social_github = FALSE, !.social_count = 0]

\* the same, on a domain without WHOIS data or certificate history
SignalsNoHistory ==
    [SignalsNoReputation EXCEPT
        !.domain_age_days = 0, !.first_cert_days_ago = 0, !.total_certs_issued = 0,
        !.domain_expiry_years_ahead = 0, !.whois_org = <<>>]

SignalProfiles ==
    {RawSignalsDefault, SignalsExampleSafe, SignalsAllPositive, SignalsNewDomain,
     SignalsNewDomainKnownName, SignalsBlocklisted, SignalsNoReputation,
     SignalsNoHistory}

\* the composite scores handed to apply_hard_caps on their own
RawScores == {0, 50, 75, 125, 175, 1000}

NoScore == [score |-> -1]
NoCapped == <<>>

\* a caller fills in one signal
SetSignal(f, v) ==
    /\ s_result = NoScore /\ s_capped = NoCapped
    /\ s_edits < MaxEdits
    /\ v # s_raw[f]
    /\ s_raw' = [s_raw EXCEPT ![f] = v]
    /\ s_edits' = s_edits + 1
    /\ UNCHANGED <<now, s_result, s_capped, h_raw_score>>
    /\ UNCHANGED <<vars_breaker, vars_ledger, vars_pipe, vars_orch, vars_obs, vars_cache, vars_batch, vars_v2, vars_lake>>

\* compute_score(s_raw)
ComputeScore ==
    /\ s_result = NoScore /\ s_capped = NoCapped
    /\ s_result' = compute_score(s_raw)
    /\ h_raw_score' = raw_score_of(s_raw)
    /\ UNCHANGED <<now, s_raw, s_edits, s_capped>>
    /\ UNCHANGED <<vars_breaker, vars_ledger, vars_pipe, vars_orch, vars_obs, vars_cache, vars_batch, vars_v2, vars_lake>>

\* apply_hard_caps(score, s_raw)
ApplyHardCaps(score) ==
    /\ s_result = NoScore /\ s_capped = NoCapped
    /\ s_capped' = <<score, apply_hard_caps(score, s_raw)>>
    /\ UNCHANGED <<now, s_raw, s_edits, s_result, h_raw_score>>
    /\ UNCHANGED <<vars_breaker, vars_ledger, vars_pipe, vars_orch, vars_obs, vars_cache, vars_batch, vars_v2, vars_lake>>

\* no signal set is being scored
ScoreIdle ==
    /\ s_raw = RawSignalsDefault
    /\ s_result = NoScore
    /\ s_capped = NoCapped
    /\ s_edits = 0
    /\ h_raw_score = 0

-----------------------------------------------------------------------------
(* The sensor network: observe_entity (app/compute/sensors.py) *)

Contains(t, c) == \E i \in DOMAIN t : t[i] = c

StartsWith(t, prefix) ==
    Len(t) >= Len(prefix) /\ SubSeq(t, 1, Len(prefix)) = prefix

\* `text.replace("www.", "")`
RECURSIVE ReplaceWww(_)
ReplaceWww(t) ==
    IF t = <<>> THEN <<>>
    ELSE IF StartsWith(t, PrefixWww)
      THEN ReplaceWww(SubSeq(t, Len(PrefixWww) + 1, Len(t)))
    ELSE <<Head(t)>> \o ReplaceWww(Tail(t))

\* the text before the first character of `stops`
RECURSIVE UpTo(_, _)
UpTo(t, stops) ==
    IF t = <<>> \/ Head(t) \in stops THEN <<>>
    ELSE <<Head(t)>> \o UpTo(Tail(t), stops)

\* `urlparse(target).netloc` of a text that starts with a scheme and "//"
Netloc(t) ==
    LET rest == IF StartsWith(t, PrefixHttps)
                  THEN SubSeq(t, Len(PrefixHttps) + 1, Len(t))
                  ELSE SubSeq(t, Len(PrefixHttp) + 1, Len(t))
    IN  UpTo(rest, {"/", "?", "#"})

\* `target.split("@")[-1]`
RECURSIVE AfterLastAt(_)
AfterLastAt(t) ==
    IF ~Contains(t, "@") THEN t
    ELSE AfterLastAt(SubSeq(t, (CHOOSE i \in DOMAIN t : t[i] = "@") + 1, Len(t)))

\* the characters `[a-z0-9]`
SlugChars ==
    {"a", "b", "c", "d", "e", "f", "g", "h", "i", "j", "k", "l", "m", "n", "o",
     "p", "q", "r", "s", "t", "u", "v", "w", "x", "y", "z",
     "0", "1", "2", "3", "4", "5", "6", "7", "8", "9"}

\* `re.sub(r'[^a-z0-9]', '', target)`
Slug(t) == SelectSeq(t, LAMBDA c : c \in SlugChars)

\* parse_target(target)["domain"]
parse_target_domain(target) ==
    LET t == Lower(Strip(target))
    IN  IF StartsWith(t, PrefixHttp) \/ StartsWith(t, PrefixHttps)
          THEN ReplaceWww(Netloc(t))
        ELSE IF Contains(t, "@") /\ Contains(AfterLastAt(t), ".")
          THEN AfterLastAt(t)
        ELSE IF Contains(t, ".") /\ ~Contains(t, " ")
          THEN ReplaceWww(t)
        ELSE IF Len(Slug(t)) > 2
          THEN Slug(t) \o <<".", "c", "o", "m">>
        ELSE <<>>

\* `entity_id = domain or target.lower().strip()`
entity_id_of(target) ==
    IF parse_target_domain(target) # <<>> THEN parse_target_domain(target)
    ELSE Strip(Lower(target))

\* a company name too short for a guessed domain, and a longer one
TargetShortName == <<"H", "P", " ">>
TargetName == <<"H", "a", "t", " ", "S", "h", "o", "p">>
TargetEmail == <<"a", "@", "a", ".", "i", "o">>
ObserveTargets == {TargetPlain, TargetUrl, TargetShortName, TargetName, TargetEmail}

\* the sensors that are queried only `if domain`
DomainSensors ==
    {"tranco", "crtsh", "virustotal", "dns", "http_headers", "whois", "web_presence"}

\* `keys = list(sensors.keys())`: the insertion order of the sensors dict
SensorOrder ==
    <<"tranco", "crtsh", "virustotal", "dns", "http_headers", "whois",
      "web_presence", "knowledge_graph", "social">>

sensor_keys(domain) ==
    SelectSeq(SensorOrder, LAMBDA s : domain # <<>> \/ s \notin DomainSensors)

\* what each sensor's collector returns when it succeeds
SensorPayloads(sensor) ==
    CASE sensor = "tranco" -> {[tranco_rank |-> 500]}
      [] sensor = "crtsh" -> {[ssl_valid |-> TRUE, first_cert_days_ago |-> 1826]}
      [] sensor = "virustotal" -> {[vt_queried |-> TRUE, vt_malicious_count |-> 0]}
      [] sensor = "dns" -> {[dns_has_spf |-> TRUE, dns_has_dmarc |-> TRUE]}
      [] sensor = "http_headers" -> {[http_has_hsts |-> TRUE, has_robots_txt |-> TRUE]}
      [] sensor = "whois" -> {[domain_age_days |-> 4000]}
      [] sensor = "web_presence" -> {[has_structured_data |-> TRUE]}
      [] sensor = "knowledge_graph" ->
            {[has_wikipedia |-> TRUE, has_wikidata |-> TRUE], [has_wikipedia |-> FALSE]}
      [] sensor = "social" -> {[social_twitter |-> TRUE, social_count |-> 1]}

AllPayloads == UNION {SensorPayloads(SensorOrder[i]) : i \in DOMAIN SensorOrder}

\* how a collector coroutine can end under asyncio.wait_for
SensorOutcomes == {"ok", "timeout", "raised"}

\* _timed_collect: whatever the collector did, a tuple comes back (the elapsed
\* time is left out)
_timed_collect(name, outcome, payload) ==
    IF outcome = "ok" THEN [kind |-> "tuple", name |-> name, signals |-> payload]
    ELSE [kind |-> "tuple", name |-> name, signals |-> <<>>]

\* "Map sensor outputs -> RawSignals": the sensor whose result holds the field
FieldSensor ==
    [f \in DOMAIN RawSignalsDefault \
           {"sources_queried", "sources_responded", "collection_errors",
            "gsb_flagged", "gsb_queried", "on_fraud_blocklist", "on_sanctions_list"} |->
        CASE f = "tranco_rank" -> "tranco"
          [] f \in {"ssl_valid", "ssl_cert_type", "ssl_org", "first_cert_days_ago",
                    "total_certs_issued"} -> "crtsh"
          [] f \in {"vt_malicious_count", "vt_suspicious_count", "vt_community_score",
                    "vt_queried"} -> "virustotal"
          [] f \in {"dns_has_spf", "dns_has_dmarc", "dns_has_dkim", "dns_has_dnssec",
                    "dns_has_mx"} -> "dns"
          [] f \in {"http_has_hsts", "http_has_csp", "http_has_xframe",
                    "http_has_xcontent_type", "http_has_referrer_policy",
                    "http_has_permissions_policy", "has_security_txt",
                    "has_robots_txt"} -> "http_headers"
          [] f \in {"domain_age_days", "whois_org", "domain_expiry_years_ahead"} -> "whois"
          [] f \in {"has_wikipedia", "has_wikidata", "has_crunchbase"} -> "knowledge_graph"
          [] f \in {"has_structured_data", "has_org_schema", "has_status_page",
                    "has_api_docs", "has_changelog"} -> "web_presence"
          [] OTHER -> "social"]

\* `results.get(sensor, {})`
results_get(results, sensor) ==
    IF sensor \in DOMAIN results THEN results[sensor] ELSE <<>>

\* `raw.f = results.get(sensor, {}).get(f, default)` for every mapped field
map_signals(raw, results) ==
    [f \in DOMAIN raw |->
        IF f \in DOMAIN FieldSensor
          THEN LET d == results_get(results, FieldSensor[f])
               IN  IF f \in DOMAIN d THEN d[f] ELSE RawSignalsDefault[f]
          ELSE raw[f]]

\* the signals of the SCORE block
score_signals(r) ==
    [score |-> r.score, grade |-> r.grade, recommendation |-> r.recommendation,
     confidence |-> r.confidence, ea |-> r.existence_age,
     si |-> r.security_integrity, rs |-> r.reputation_scale,
     om |-> r.operational_maturity, cap |-> r.cap_applied]

\* record_observation inside `try: ... except Exception`: create_block
\* appends a block for (entity, sensor, signals) to the entity's chain; when
\* the store fails the exception is logged and nothing is appended.  The
\* chain is kept as the list of its blocks' entity, sensor and signals.
record_observation(chain, entity_id, sensor, signals, up) ==
    IF up THEN Append(chain, [entity_id |-> entity_id, sensor |-> sensor,
                              signals |-> signals])
    ELSE chain

NoTarget == <<>>

Failed(outcomes) == {s \in DOMAIN outcomes : outcomes[s] # "ok"}

\* observe_entity up to asyncio.gather
ObserveStart(target) ==
    /\ ob_pc = "idle"
    /\ ob_pc' = "loop"
    /\ ob_target' = target
    /\ ob_keys' = sensor_keys(parse_target_domain(target))
    /\ ob_i' = 1
    /\ ob_results' = <<>>
    /\ ob_raw' = [RawSignalsDefault EXCEPT
                    !.sources_queried = sensor_keys(parse_target_domain(target))]
    /\ h_sensor_outcome' = <<>>
    /\ UNCHANGED <<now, ob_chain, ob_score, h_store_failures>>
    /\ UNCHANGED <<vars_breaker, vars_ledger, vars_pipe, vars_orch, vars_score, vars_cache, vars_batch, vars_v2, vars_lake>>

\* one round of `for i, res in enumerate(results_list)`; the sensor's
\* coroutine ended with `outcome`, and the store is up or not
ObserveResult(outcome, payload, up) ==
    /\ ob_pc = "loop" /\ ob_i <= Len(ob_keys)
    /\ payload \in SensorPayloads(ob_keys[ob_i])
    /\ outcome # "ok" => Cardinality(Failed(h_sensor_outcome)) < MaxSensorFailures
    /\ ~up => h_store_failures < MaxStoreFailures
    /\ LET sensor == ob_keys[ob_i]
           res == _timed_collect(sensor, outcome, payload)
       IN  /\ h_sensor_outcome' =
                [s \in DOMAIN h_sensor_outcome \cup {sensor} |->
                    IF s = sensor THEN outcome ELSE h_sensor_outcome[s]]
           /\ IF res.kind = "tuple"
                THEN /\ ob_results' =
                          [s \in DOMAIN ob_results \cup {sensor} |->
                              IF s = sensor THEN res.signals ELSE ob_results[s]]
                     /\ ob_raw' = [ob_raw EXCEPT !.sources_responded = Append(@, sensor)]
                     /\ ob_chain' = record_observation(ob_chain, entity_id_of(ob_target),
                                                       sensor, res.signals, up)
                     /\ h_store_failures' = h_store_failures + (IF up THEN 0 ELSE 1)
                ELSE /\ ob_results' =
                          [s \in DOMAIN ob_results \cup {sensor} |->
                              IF s = sensor THEN <<>> ELSE ob_results[s]]
                     /\ ob_raw' = [ob_raw EXCEPT !.collection_errors = Append(@, sensor)]
                     /\ UNCHANGED <<ob_chain, h_store_failures>>
    /\ ob_i' = ob_i + 1
    /\ UNCHANGED <<now, ob_pc, ob_target, ob_keys, ob_score>>
    /\ UNCHANGED <<vars_breaker, vars_ledger, vars_pipe, vars_orch, vars_score, vars_cache, vars_batch, vars_v2, vars_lake>>

\* after the loop: the results are mapped to RawSignals, the score is
\* computed and recorded as a block of its own, and raw is returned
ObserveScore(up) ==
    /\ ob_pc = "loop" /\ ob_i > Len(ob_keys)
    /\ ~up => h_store_failures < MaxStoreFailures
    /\ ob_raw' = map_signals(ob_raw, ob_results)
    /\ ob_score' = compute_score(map_signals(ob_raw, ob_results))
    /\ ob_chain' = record_observation(ob_chain, entity_id_of(ob_target), "score_computed",
                        score_signals(compute_score(map_signals(ob_raw, ob_results))), up)
    /\ h_store_failures' = h_store_failures + (IF up THEN 0 ELSE 1)
    /\ ob_pc' = "done"
    /\ UNCHANGED <<now, ob_target, ob_keys, ob_i, ob_results, h_sensor_outcome>>
    /\ UNCHANGED <<vars_breaker, vars_ledger, vars_pipe, vars_orch, vars_score, vars_cache, vars_batch, vars_v2, vars_lake>>

\* no observation is running and the chain is empty
ObserveIdle ==
    /\ ob_pc = "idle"
    /\ ob_target = NoTarget
    /\ ob_keys = <<>>
    /\ ob_i = 1
    /\ ob_results = <<>>
    /\ ob_raw = RawSignalsDefault
    /\ ob_score = NoScore
    /\ ob_chain = <<>>
    /\ h_sensor_outcome = <<>>
    /\ h_store_failures = 0

-----------------------------------------------------------------------------
(* The v2 engine: app/trust/engine.py *)

\* Sub-scores are counted in thousandths of a point, and so is every float
\* signal (ratings, percentages, sentiments, milliseconds), except money:
\* total_spend is in dollars, market_cap_usd and funding_total_usd are in
\* thousands of dollars.  last_active is <<>> for None and <<age>> for a
\* datetime that lies `age` hours before the call.
Pts(n) == n * 1000

\* `n` points when `cond` holds
If(cond, n) == IF cond THEN Pts(n) ELSE 0

\* the quotient rounded towards zero, as int() rounds
Quot(a, b) == IF a >= 0 THEN a \div b ELSE -((-a) \div b)

\* IdentitySignals()
IdentitySignalsDefault ==
    [domain_verified |-> FALSE, dns_txt_verified |-> FALSE, file_verified |-> FALSE,
     email_verified |-> FALSE, domain_age_days |-> 0, ssl_valid |-> FALSE,
     ssl_org_match |-> FALSE, dns_has_spf |-> FALSE, dns_has_dmarc |-> FALSE,
     dns_has_dkim |-> FALSE, has_structured_data |-> FALSE,
     has_organization_schema |-> FALSE, has_product_schema |-> FALSE,
     has_faq_schema |-> FALSE, has_wikidata_entry |-> FALSE,
     has_wikipedia_page |-> FALSE, has_crunchbase |-> FALSE,
     has_linkedin_company |-> FALSE, has_google_knowledge_panel |-> FALSE,
     has_business_registration |-> FALSE, has_sec_filing |-> FALSE,
     has_trademark |-> FALSE, ein_verified |-> FALSE, social_profiles_count |-> 0,
     name_consistent_across_sources |-> FALSE, address_consistent |-> FALSE,
     has_agent_card |-> FALSE, has_model_card |-> FALSE]

\* CompetenceSignals()
CompetenceSignalsDefault ==
    [total_transactions |-> 0, successful_transactions |-> 0,
     disputed_transactions |-> 0, avg_response_time_ms |-> 0, uptime_pct |-> 0,
     last_active |-> <<>>, hallucination_reports |-> 0, accuracy_score |-> 0,
     safety_score |-> 0, has_status_page |-> FALSE, status_page_uptime |-> 0,
     github_stars |-> 0, github_last_commit_days |-> 0,
     npm_weekly_downloads |-> 0, pypi_weekly_downloads |-> 0,
     has_public_changelog |-> FALSE, has_public_roadmap |-> FALSE,
     g2_rating |-> 0, trustpilot_rating |-> 0, app_store_rating |-> 0,
     api_response_time_ms |-> 0, has_rate_limiting |-> FALSE,
     has_versioning |-> FALSE, has_deprecation_policy |-> FALSE,
     visibility_score |-> 0]

\* SolvencySignals()
SolvencySignalsDefault ==
    [has_payment_method |-> FALSE, stripe_verified |-> FALSE,
     subscription_active |-> FALSE, subscription_tier |-> "free",
     account_age_days |-> 0, payment_failures_30d |-> 0, total_spend |-> 0,
     is_publicly_traded |-> FALSE, market_cap_usd |-> 0,
     has_public_financials |-> FALSE, revenue_growing |-> FALSE,
     profitable |-> FALSE, funding_total_usd |-> 0, funding_rounds |-> 0,
     employee_count |-> 0, employee_count_growing |-> FALSE,
     has_pending_lawsuits |-> FALSE, has_bankruptcy_filing |-> FALSE,
     dun_bradstreet_score |-> 0]

\* ReputationSignals()
ReputationSignalsDefault ==
    [overall_sentiment |-> 0, sentiment_sample_size |-> 0,
     sentiment_trend |-> "stable", news_mentions_30d |-> 0,
     has_negative_press |-> FALSE, has_positive_press |-> FALSE,
     google_reviews_count |-> 0, google_reviews_rating |-> 0, yelp_rating |-> 0,
     glassdoor_rating |-> 0, twitter_followers |-> 0,
     twitter_engagement_rate |-> 0, reddit_mentions |-> 0, reddit_sentiment |-> 0,
     has_bbb_accreditation |-> FALSE, has_soc2 |-> FALSE, has_iso27001 |-> FALSE,
     has_gdpr_compliance |-> FALSE, has_hipaa_compliance |-> FALSE,
     community_reports_fraud |-> 0, on_spam_blocklist |-> FALSE,
     on_fraud_blocklist |-> FALSE, on_sanctions_list |-> FALSE]

\* NetworkSignals()
NetworkSignalsDefault ==
    [verified_partners_count |-> 0, high_trust_connections |-> 0,
     low_trust_connections |-> 0, flagged_connections |-> 0,
     endorsements_received |-> 0, endorsement_avg_score |-> 0,
     integration_partners |-> 0, notable_customers |-> 0,
     marketplace_presence |-> 0, pagerank_score |-> 0, is_bridge_entity |-> FALSE]

\* `min(max(score, 0.0), 100.0)`
sub_score(score) == Min(Max(score, 0), Pts(100))

\* the sum IdentitySignals.calculate builds before its `min`
identity_sum(s) ==
    \* tier 1: hard verification
      If(s.domain_verified \/ s.dns_txt_verified \/ s.file_verified, 18)
    + If(s.email_verified, 7)
    + If(s.ssl_org_match, 5)
    \* tier 2: structured web presence
    + If(s.has_structured_data, 5)
    + If(s.has_organization_schema, 5)
    + If(s.has_product_schema \/ s.has_faq_schema, 3)
    + If(s.ssl_valid, 2)
    \* tier 3: knowledge graph
    + If(s.has_wikidata_entry, 7)
    + If(s.has_wikipedia_page, 7)
    + If(s.has_google_knowledge_panel, 6)
    \* tier 4: official records
    + If(s.has_business_registration, 5)
    + If(s.has_sec_filing, 4)
    + If(s.has_trademark, 3)
    + If(s.ein_verified, 3)
    \* tier 5: web presence breadth
    + Pts(Min(s.social_profiles_count * 2, 6))
    + If(s.has_crunchbase, 2)
    + If(s.has_linkedin_company, 2)
    + If(s.has_agent_card \/ s.has_model_card, 2)
    \* tier 6: domain maturity
    + (IF s.domain_age_days > 3650 THEN Pts(8)
       ELSE IF s.domain_age_days > 1825 THEN Pts(6)
       ELSE IF s.domain_age_days > 365 THEN Pts(4)
       ELSE IF s.domain_age_days > 90 THEN Pts(2)
       ELSE IF s.domain_age_days > 30 THEN Pts(1)
       ELSE 0)
    \* consistency bonus
    + If(s.name_consistent_across_sources, 3)
    + If(s.address_consistent, 2)
    \* email security
    + If(s.dns_has_spf, 1)
    + If(s.dns_has_dmarc, 1)
    + If(s.dns_has_dkim, 1)

\* IdentitySignals.calculate: `return min(score, 100.0)`
identity_calculate(s) == Min(identity_sum(s), Pts(100))

\* CompetenceSignals.calculate
competence_calculate(s) ==
    LET total == s.total_transactions
        transactions ==
            IF total > 0
              THEN Quot(s.successful_transactions * Pts(20), total)
                   + (IF total > 10000 THEN Pts(10)
                      ELSE IF total > 1000 THEN Pts(8)
                      ELSE IF total > 100 THEN Pts(5)
                      ELSE IF total > 10 THEN Pts(3)
                      ELSE Pts(1))
                   - (IF total > 10
                        THEN IF s.disputed_transactions * 100 > 5 * total THEN Pts(10)
                             ELSE IF s.disputed_transactions * 100 > 2 * total THEN Pts(5)
                             ELSE IF s.disputed_transactions > 0 THEN Pts(2)
                             ELSE 0
                        ELSE 0)
              ELSE 0
        reliability ==
              (IF s.uptime_pct > 99900 THEN Pts(10)
               ELSE IF s.uptime_pct > 99000 THEN Pts(7)
               ELSE IF s.uptime_pct > 95000 THEN Pts(4)
               ELSE IF s.uptime_pct > 0 THEN Pts(1)
               ELSE 0)
            + (IF s.has_status_page
                 THEN Pts(3) + If(s.status_page_uptime > 99000, 2)
                 ELSE 0)
        effective_rt ==
            IF s.avg_response_time_ms # 0 THEN s.avg_response_time_ms
            ELSE s.api_response_time_ms
        response ==
            IF effective_rt > 0
              THEN IF effective_rt < 100000 THEN Pts(8)
                   ELSE IF effective_rt < 200000 THEN Pts(6)
                   ELSE IF effective_rt < 500000 THEN Pts(4)
                   ELSE IF effective_rt < 1000000 THEN Pts(2)
                   ELSE Pts(1)
              ELSE 0
        quality ==
              (IF s.hallucination_reports = 0 /\ total > 10 THEN Pts(6)
               ELSE IF s.hallucination_reports < 3 THEN Pts(3)
               ELSE 0)
            + (IF s.accuracy_score > 0 THEN Quot(s.accuracy_score * 4, 100) ELSE 0)
            + If(s.safety_score > 80000, 2)
        public_rep_score ==
              (IF s.g2_rating > 0 THEN Min(s.g2_rating, 5000) ELSE 0)
            + (IF s.trustpilot_rating > 0
                 THEN Quot(Min(s.trustpilot_rating, 5000) * 6, 10) ELSE 0)
            + (IF s.app_store_rating > 0
                 THEN Quot(Min(s.app_store_rating, 5000) * 4, 10) ELSE 0)
        public ==
              Min(public_rep_score, Pts(8))
            + (IF s.github_stars > 1000 THEN Pts(4)
               ELSE IF s.github_stars > 100 THEN Pts(2)
               ELSE IF s.github_stars > 10 THEN Pts(1)
               ELSE 0)
            + If(s.npm_weekly_downloads > 100000 \/ s.pypi_weekly_downloads > 100000, 3)
        recency ==
            IF s.last_active # <<>>
              THEN LET age == s.last_active[1]
                   IN  IF age < 1 THEN Pts(10)
                       ELSE IF age < 24 THEN Pts(8)
                       ELSE IF age < 7 * 24 THEN Pts(5)
                       ELSE IF age < 30 * 24 THEN Pts(3)
                       ELSE Pts(1)
            ELSE IF s.github_last_commit_days > 0
              THEN IF s.github_last_commit_days < 7 THEN Pts(7)
                   ELSE IF s.github_last_commit_days < 30 THEN Pts(4)
                   ELSE IF s.github_last_commit_days < 90 THEN Pts(2)
                   ELSE 0
            ELSE 0
        maturity ==
              If(s.has_public_changelog, 1) + If(s.has_public_roadmap, 1)
            + If(s.has_rate_limiting, 1) + If(s.has_versioning, 1)
            + If(s.has_deprecation_policy, 1)
    IN  sub_score(transactions + reliability + response + quality + public
              + recency + maturity)

\* tier_scores.get(subscription_tier, 0)
tier_scores(tier) ==
    IF tier = "pro" THEN 3
    ELSE IF tier = "business" THEN 4
    ELSE IF tier = "enterprise" THEN 5
    ELSE 0

\* SolvencySignals.calculate
solvency_calculate(s) ==
    LET payment ==
              If(s.has_payment_method, 10) + If(s.stripe_verified, 10)
            + If(s.subscription_active, 5) + Pts(tier_scores(s.subscription_tier))
        account ==
            IF s.account_age_days > 730 THEN Pts(12)
            ELSE IF s.account_age_days > 365 THEN Pts(9)
            ELSE IF s.account_age_days > 180 THEN Pts(6)
            ELSE IF s.account_age_days > 90 THEN Pts(4)
            ELSE IF s.account_age_days > 30 THEN Pts(2)
            ELSE 0
        reliability ==
            IF s.payment_failures_30d = 0 /\ s.total_spend > 0
              THEN Pts(7) + (IF s.total_spend > 1000 THEN Pts(3)
                             ELSE IF s.total_spend > 100 THEN Pts(1)
                             ELSE 0)
            ELSE IF s.payment_failures_30d <= 1 THEN Pts(4)
            ELSE 0
        financials ==
              (IF s.is_publicly_traded
                 THEN Pts(10) + (IF s.market_cap_usd > 10000000 THEN Pts(5)
                                 ELSE IF s.market_cap_usd > 1000000 THEN Pts(3)
                                 ELSE 0)
               ELSE IF s.has_public_financials THEN Pts(5)
               ELSE 0)
            + If(s.profitable, 4) + If(s.revenue_growing, 3)
            + (IF s.funding_total_usd > 100000 THEN Pts(5)
               ELSE IF s.funding_total_usd > 10000 THEN Pts(3)
               ELSE IF s.funding_total_usd > 1000 THEN Pts(2)
               ELSE IF s.funding_rounds > 0 THEN Pts(1)
               ELSE 0)
        size ==
              (IF s.employee_count > 10000 THEN Pts(6)
               ELSE IF s.employee_count > 1000 THEN Pts(4)
               ELSE IF s.employee_count > 100 THEN Pts(2)
               ELSE IF s.employee_count > 10 THEN Pts(1)
               ELSE 0)
            + If(s.employee_count_growing, 2)
            + If(s.dun_bradstreet_score > 80, 2)
        penalties ==
            If(s.has_bankruptcy_filing, 30) + If(s.has_pending_lawsuits, 10)
    IN  sub_score(payment + account + reliability + financials + size - penalties)

\* ReputationSignals.calculate
reputation_calculate(s) ==
    LET sentiment ==
            IF s.sentiment_sample_size > 0
              THEN s.overall_sentiment * 20
                   + (IF s.sentiment_sample_size > 1000 THEN Pts(3)
                      ELSE IF s.sentiment_sample_size > 100 THEN Pts(1)
                      ELSE 0)
              ELSE 0
        review_score ==
              (IF s.google_reviews_rating > 0
                 THEN Quot(s.google_reviews_rating * 6, 5)
                      + If(s.google_reviews_count > 100, 2)
                 ELSE 0)
            + (IF s.glassdoor_rating > 0 THEN Quot(s.glassdoor_rating * 4, 5) ELSE 0)
            + (IF s.yelp_rating > 0 THEN Quot(s.yelp_rating * 3, 5) ELSE 0)
        certifications ==
              If(s.has_soc2, 5) + If(s.has_iso27001, 4) + If(s.has_gdpr_compliance, 3)
            + If(s.has_hipaa_compliance, 2) + If(s.has_bbb_accreditation, 1)
        social ==
              (IF s.twitter_followers > 100000 THEN Pts(4)
               ELSE IF s.twitter_followers > 10000 THEN Pts(2)
               ELSE IF s.twitter_followers > 1000 THEN Pts(1)
               ELSE 0)
            + If(s.twitter_engagement_rate > 30, 2)
            + If(s.reddit_sentiment > 300 /\ s.reddit_mentions > 10, 2)
        news ==
              If(s.has_positive_press, 4) - If(s.has_negative_press, 6)
            + (IF s.news_mentions_30d > 50 THEN Pts(2)
               ELSE IF s.news_mentions_30d > 10 THEN Pts(1)
               ELSE 0)
        trend ==
            IF s.sentiment_trend = "improving" THEN Pts(3)
            ELSE IF s.sentiment_trend = "declining" THEN -Pts(5)
            ELSE 0
        before_penalties ==
            Pts(50) + sentiment + Min(review_score, Pts(15)) + certifications
            + social + news + trend
        penalties ==
              If(s.on_fraud_blocklist, 40) + If(s.on_spam_blocklist, 15)
            + (IF s.community_reports_fraud > 5 THEN Pts(20)
               ELSE IF s.community_reports_fraud > 0 THEN Pts(10)
               ELSE 0)
    IN  sub_score((IF s.on_sanctions_list THEN 0 ELSE before_penalties) - penalties)

\* NetworkSignals.calculate
network_calculate(s) ==
    LET vouching ==
              (IF s.high_trust_connections > 10 THEN Pts(20)
               ELSE IF s.high_trust_connections > 5 THEN Pts(15)
               ELSE IF s.high_trust_connections > 2 THEN Pts(10)
               ELSE IF s.high_trust_connections > 0 THEN Pts(5)
               ELSE 0)
            + (IF s.verified_partners_count > 5 THEN Pts(10)
               ELSE IF s.verified_partners_count > 0 THEN Pts(5)
               ELSE 0)
        endorsements ==
            IF s.endorsements_received > 0
              THEN Min(Quot(s.endorsement_avg_score, 100), Pts(10))
                   + (IF s.endorsements_received > 10 THEN Pts(5)
                      ELSE IF s.endorsements_received > 3 THEN Pts(3)
                      ELSE 0)
              ELSE 0
        integration ==
              (IF s.integration_partners > 20 THEN Pts(10)
               ELSE IF s.integration_partners > 5 THEN Pts(6)
               ELSE IF s.integration_partners > 0 THEN Pts(3)
               ELSE 0)
            + (IF s.notable_customers > 5 THEN Pts(5)
               ELSE IF s.notable_customers > 0 THEN Pts(2)
               ELSE 0)
        position ==
              (IF s.pagerank_score > 10 THEN Pts(5)
               ELSE IF s.pagerank_score > 1 THEN Pts(3)
               ELSE 0)
            + If(s.is_bridge_entity, 3)
            + If(s.marketplace_presence > 3, 2)
        penalties ==
              (IF s.flagged_connections > 3 THEN Pts(20)
               ELSE IF s.flagged_connections > 0 THEN Pts(10)
               ELSE 0)
            + If(s.low_trust_connections > s.high_trust_connections * 2, 10)
    IN  sub_score(Pts(30) + vouching + endorsements + integration + position - penalties)

\* the `if ...: total += 1` of _count_data_points
Count(cond) == IF cond THEN 1 ELSE 0

\* data_points["max_possible"]
max_possible == 35

\* _count_data_points(...)["total"]
_count_data_points(sig) ==
    LET identity == sig.identity
        competence == sig.competence
        solvency == sig.solvency
        reputation == sig.reputation
        network == sig.network
    IN    Count(sig.is_verified)
        + Count(sig.is_registered)
        + Count(identity.domain_verified \/ identity.dns_txt_verified
                \/ identity.file_verified)
        + Count(identity.email_verified)
        + Count(identity.has_structured_data)
        + Count(identity.has_organization_schema)
        + Count(identity.has_wikidata_entry \/ identity.has_wikipedia_page)
        + Count(identity.has_business_registration)
        + Count(identity.social_profiles_count > 0)
        + Count(identity.domain_age_days > 0)
        + Count(identity.ssl_valid)
        + Count(competence.total_transactions > 0)
        + Count(competence.uptime_pct > 0)
        + Count(competence.avg_response_time_ms > 0
                \/ competence.api_response_time_ms > 0)
        + Count(competence.last_active # <<>>)
        + Count(competence.visibility_score > 0)
        + Count(competence.g2_rating > 0 \/ competence.trustpilot_rating > 0)
        + Count(competence.github_stars > 0)
        + Count(competence.has_status_page)
        + Count(solvency.has_payment_method)
        + Count(solvency.is_publicly_traded)
        + Count(solvency.funding_total_usd > 0)
        + Count(solvency.employee_count > 0)
        + Count(solvency.account_age_days > 0)
        + Count(reputation.sentiment_sample_size > 0)
        + Count(reputation.google_reviews_count > 0)
        + Count(reputation.news_mentions_30d > 0)
        + Count(reputation.has_soc2 \/ reputation.has_iso27001)
        + Count(reputation.twitter_followers > 0)
        + Count(network.high_trust_connections > 0)
        + Count(network.endorsements_received > 0)
        + Count(network.integration_partners > 0)
        + Count(network.pagerank_score > 0)

\* the grade of a composite score
grade_v2(score_1000) ==
    IF score_1000 >= 900 THEN "AAA"
    ELSE IF score_1000 >= 800 THEN "AA"
    ELSE IF score_1000 >= 700 THEN "A"
    ELSE IF score_1000 >= 600 THEN "BBB"
    ELSE IF score_1000 >= 500 THEN "BB"
    ELSE IF score_1000 >= 400 THEN "B"
    ELSE IF score_1000 >= 200 THEN "CCC"
    ELSE "D"

\* the risk level of a composite score
risk_level_v2(score_1000) ==
    IF score_1000 >= 850 THEN "minimal"
    ELSE IF score_1000 >= 700 THEN "low"
    ELSE IF score_1000 >= 550 THEN "moderate"
    ELSE IF score_1000 >= 400 THEN "elevated"
    ELSE IF score_1000 >= 250 THEN "high"
    ELSE IF score_1000 >= 100 THEN "severe"
    ELSE "critical"

\* the recommendation for a composite score
recommendation_v2(score_1000) ==
    IF score_1000 >= 700 THEN "PROCEED"
    ELSE IF score_1000 >= 550 THEN "PROCEED_WITH_CAUTION"
    ELSE IF score_1000 >= 400 THEN "MANUAL_REVIEW"
    ELSE IF score_1000 >= 200 THEN "ENHANCED_DUE_DILIGENCE"
    ELSE "REJECT"

\* The denominator the confidence is counted in: confidence is
\* min(total / 35, 1.0), times 0.7 for an unregistered entity, so it is
\* a whole number of 350ths.
ConfidenceUnit == max_possible * 10

\* calculate_trust_score(...): the sub-scores in thousandths of a point, the
\* composite `int(composite * 10)`, the confidence in 350ths
calculate_trust_score(sig) ==
    LET id_score == identity_calculate(sig.identity)
        comp_score == competence_calculate(sig.competence)
        solv_score == solvency_calculate(sig.solvency)
        rep_score == reputation_calculate(sig.reputation)
        net_score == network_calculate(sig.network)
        \* composite, in hundred-thousandths of a point
        composite ==
            id_score * 30 + comp_score * 25 + solv_score * 15
            + rep_score * 20 + net_score * 10
        score_1000 == Quot(composite, 10000)
        total == _count_data_points(sig)
    IN  [score |-> score_1000,
         grade |-> grade_v2(score_1000),
         risk_level |-> risk_level_v2(score_1000),
         recommendation |-> recommendation_v2(score_1000),
         identity_score |-> id_score,
         competence_score |-> comp_score,
         solvency_score |-> solv_score,
         reputation_score |-> rep_score,
         network_score |-> net_score,
         is_verified |-> sig.is_verified,
         is_registered |-> sig.is_registered,
         confidence |-> Min(total, max_possible) * (IF sig.is_registered THEN 10 ELSE 7),
         signal_count |-> total]

\* calculate_trust_score called without any signal object
EngineDefault ==
    [identity |-> IdentitySignalsDefault, competence |-> CompetenceSignalsDefault,
     solvency |-> SolvencySignalsDefault, reputation |-> ReputationSignalsDefault,
     network |-> NetworkSignalsDefault, is_verified |-> FALSE, is_registered |-> FALSE]

\* the signal objects of test_engine.py
EngineTested ==
    [identity |->
        [IdentitySignalsDefault EXCEPT
            !.domain_verified = TRUE, !.ssl_valid = TRUE, !.domain_age_days = 1200,
            !.dns_has_spf = TRUE, !.dns_has_dmarc = TRUE,
            !.has_structured_data = TRUE, !.has_linkedin_company = TRUE,
            !.social_profiles_count = 3, !.has_wikidata_entry = TRUE,
            !.has_crunchbase = TRUE, !.has_business_registration = TRUE],
     competence |->
        [CompetenceSignalsDefault EXCEPT
            !.total_transactions = 500, !.successful_transactions = 490,
            !.uptime_pct = 99800, !.github_stars = 250, !.has_status_page = TRUE,
            !.g2_rating = 4500],
     solvency |->
        [SolvencySignalsDefault EXCEPT
            !.has_payment_method = TRUE, !.stripe_verified = TRUE,
            !.employee_count = 50, !.funding_total_usd = 5000,
            !.funding_rounds = 2, !.subscription_active = TRUE],
     reputation |->
        [ReputationSignalsDefault EXCEPT
            !.overall_sentiment = 720, !.sentiment_sample_size = 200,
            !.google_reviews_count = 85, !.google_reviews_rating = 4200,
            !.has_soc2 = TRUE],
     network |->
        [NetworkSignalsDefault EXCEPT
            !.verified_partners_count = 5, !.high_trust_connections = 8,
            !.endorsements_received = 12],
     is_verified |-> TRUE, is_registered |-> TRUE]

\* The values a caller gives each signal that is not a flag: both sides of
\* the thresholds of the calculators, and what the type of the field lets
\* through.
EngineNumbers ==
    [identity |->
        [domain_age_days |-> {0, 31, 400, 4000},
         social_profiles_count |-> {-300, -1, 0, 2, 9}],
     competence |->
        [total_transactions |-> {0, 5, 500, 20000},
         successful_transactions |-> {0, 5, 490, 30000},
         disputed_transactions |-> {0, 1, 400},
         avg_response_time_ms |-> {0, 50000, 2000000},
         api_response_time_ms |-> {0, 50000, 2000000},
         uptime_pct |-> {0, 99500, 99950},
         status_page_uptime |-> {0, 99500},
         last_active |-> {<<>>, <<0>>, <<100>>, <<10000>>},
         hallucination_reports |-> {0, 2, 7},
         accuracy_score |-> {0, 95000, 400000},
         safety_score |-> {0, 95000},
         visibility_score |-> {0, 95000},
         github_stars |-> {0, 250, 5000},
         github_last_commit_days |-> {0, 3, 200},
         npm_weekly_downloads |-> {0, 200000},
         pypi_weekly_downloads |-> {0, 200000},
         g2_rating |-> {0, 4500, 9000},
         trustpilot_rating |-> {0, 4500, 9000},
         app_store_rating |-> {0, 4500, 9000}],
     solvency |->
        [subscription_tier |-> {"free", "enterprise", "gold"},
         account_age_days |-> {0, 100, 800},
         payment_failures_30d |-> {0, 1, 4},
         total_spend |-> {0, 50, 5000},
         market_cap_usd |-> {0, 2000000, 50000000},
         funding_total_usd |-> {0, 5000, 200000},
         funding_rounds |-> {0, 2},
         employee_count |-> {0, 50, 20000},
         dun_bradstreet_score |-> {0, 90}],
     reputation |->
        [overall_sentiment |-> {-1000, 0, 720, 5000},
         reddit_sentiment |-> {0, 720},
         sentiment_sample_size |-> {0, 200, 5000},
         sentiment_trend |-> {"stable", "improving", "declining"},
         news_mentions_30d |-> {0, 20, 80},
         reddit_mentions |-> {0, 20},
         google_reviews_count |-> {0, 85, 300},
         google_reviews_rating |-> {0, 4200, 50000},
         yelp_rating |-> {0, 4200},
         glassdoor_rating |-> {0, 4200},
         twitter_followers |-> {0, 5000, 200000},
         twitter_engagement_rate |-> {0, 50},
         community_reports_fraud |-> {0, 1, 9}],
     network |->
        [verified_partners_count |-> {0, 1, 30},
         high_trust_connections |-> {0, 1, 4, 30},
         low_trust_connections |-> {0, 4},
         flagged_connections |-> {0, 1, 30},
         endorsements_received |-> {0, 4, 30},
         endorsement_avg_score |-> {0, 650000, 5000000},
         integration_partners |-> {0, 1, 30},
         notable_customers |-> {0, 1, 30},
         marketplace_presence |-> {0, 4},
         pagerank_score |-> {0, 5, 50}]]

\* the values a caller gives a signal
EngineValues(pillar, f) ==
    IF f \in DOMAIN EngineNumbers[pillar] THEN EngineNumbers[pillar][f] ELSE {FALSE, TRUE}

Pillars == {"identity", "competence", "solvency", "reputation", "network"}

\* every signal at its best: the flags set and the numbers at their largest
\* value, the signals that only take points away left as they are
EngineAllPositive ==
    LET kept ==
            {"has_pending_lawsuits", "has_bankruptcy_filing", "has_negative_press",
             "on_spam_blocklist", "on_fraud_blocklist", "on_sanctions_list",
             "disputed_transactions", "hallucination_reports",
             "payment_failures_30d", "community_reports_fraud",
             "low_trust_connections", "flagged_connections",
             "avg_response_time_ms", "api_response_time_ms",
             "subscription_tier", "sentiment_trend", "last_active"}
        best(pillar, f) ==
            IF f \in kept THEN EngineDefault[pillar][f]
            ELSE IF f \notin DOMAIN EngineNumbers[pillar] THEN TRUE
            ELSE CHOOSE v \in EngineNumbers[pillar][f] :
                    \A w \in EngineNumbers[pillar][f] : w <= v
    IN  [identity |-> [f \in DOMAIN IdentitySignalsDefault |-> best("identity", f)],
         competence |->
            [[f \in DOMAIN CompetenceSignalsDefault |-> best("competence", f)]
                EXCEPT !.avg_response_time_ms = 50000, !.last_active = <<0>>],
         solvency |->
            [[f \in DOMAIN SolvencySignalsDefault |-> best("solvency", f)]
                EXCEPT !.subscription_tier = "enterprise"],
         reputation |->
            [[f \in DOMAIN ReputationSignalsDefault |-> best("reputation", f)]
                EXCEPT !.sentiment_trend = "improving"],
         network |-> [f \in DOMAIN NetworkSignalsDefault |-> best("network", f)],
         is_verified |-> TRUE, is_registered |-> TRUE]

EngineProfiles == {EngineDefault, EngineTested, EngineAllPositive}

NoTrustScore == [score |-> -1]

\* a caller fills in one signal of one of the five signal objects
SetEngineSignal(pillar, f, v) ==
    /\ v2_result = NoTrustScore
    /\ v2_edits < MaxEngineEdits
    /\ v # v2_sig[pillar][f]
    /\ v2_sig' = [v2_sig EXCEPT ![pillar][f] = v]
    /\ v2_edits' = v2_edits + 1
    /\ UNCHANGED <<now, v2_result>>
    /\ UNCHANGED <<vars_breaker, vars_ledger, vars_pipe, vars_orch, vars_score, vars_obs, vars_cache, vars_batch, vars_lake>>

\* calculate_trust_score(..., identity, competence, solvency, reputation, network)
CalculateTrustScore ==
    /\ v2_result = NoTrustScore
    /\ v2_result' = calculate_trust_score(v2_sig)
    /\ UNCHANGED <<now, v2_sig, v2_edits>>
    /\ UNCHANGED <<vars_breaker, vars_ledger, vars_pipe, vars_orch, vars_score, vars_obs, vars_cache, vars_batch, vars_lake>>

\* the v2 engine before any call
EngineIdle ==
    /\ v2_sig = EngineDefault
    /\ v2_result = NoTrustScore
    /\ v2_edits = 0

-----------------------------------------------------------------------------
(* compute_batch (app/compute/pipeline.py) *)

BatchTargets == {"a.io", "b.io"}
BatchLists == UNION {[1..n -> BatchTargets] : n \in 0..MaxBatch}

\* what a compute_trust_score call hands to _score_one: the result dict
\* (computed or degraded), or the exception it raised
CallOutcomes(t) ==
    { [kind |-> "dict", target |-> t, error |-> ""],
      [kind |-> "exception", target |-> "", error |-> "UnicodeEncodeError"] }

\* a semaphore that lets every task in
sem_free_always(value) == TRUE

\* asyncio.Semaphore: acquire goes through while the value is positive
sem_free(value) == value > 0

\* compute_batch up to asyncio.gather: the semaphore is made and one
\* _score_one task is created for every target
BatchStart(targets, max_concurrent) ==
    /\ b_pc = "idle"
    /\ b_pc' = "gathering"
    /\ b_targets' = targets
    /\ b_max' = max_concurrent
    /\ b_sem' = max_concurrent
    /\ b_task' = [i \in DOMAIN targets |-> "waiting"]
    /\ b_res' = [i \in DOMAIN targets |-> <<>>]
    /\ UNCHANGED <<now, b_out>>
    /\ UNCHANGED <<vars_breaker, vars_ledger, vars_pipe, vars_orch, vars_score, vars_obs, vars_cache, vars_v2, vars_lake>>

\* _score_one: `async with semaphore`, then compute_trust_score is called
BatchEnter(i) ==
    /\ b_pc = "gathering"
    /\ i \in DOMAIN b_task
    /\ b_task[i] = "waiting"
    /\ sem_free(b_sem)
    /\ b_sem' = b_sem - 1
    /\ b_task' = [b_task EXCEPT ![i] = "running"]
    /\ UNCHANGED <<now, b_pc, b_targets, b_max, b_res, b_out>>
    /\ UNCHANGED <<vars_breaker, vars_ledger, vars_pipe, vars_orch, vars_score, vars_obs, vars_cache, vars_v2, vars_lake>>

\* _score_one: compute_trust_score returns or raises, the semaphore is
\* released, and gather keeps what the task returned or raised
BatchLeave(i, outcome) ==
    /\ b_pc = "gathering"
    /\ i \in DOMAIN b_task
    /\ b_task[i] = "running"
    /\ outcome \in CallOutcomes(b_targets[i])
    /\ b_sem' = b_sem + 1
    /\ b_task' = [b_task EXCEPT ![i] = "done"]
    /\ b_res' = [b_res EXCEPT ![i] = outcome]
    /\ UNCHANGED <<now, b_pc, b_targets, b_max, b_out>>
    /\ UNCHANGED <<vars_breaker, vars_ledger, vars_pipe, vars_orch, vars_score, vars_obs, vars_cache, vars_v2, vars_lake>>

\* `r if isinstance(r, dict) else {"error": str(r), "target": targets[i]}`
batch_entry(r, target) ==
    IF r.kind = "dict" THEN r
    ELSE [kind |-> "dict", target |-> target, error |-> r.error]

\* gather is over: the list of entries is returned
BatchReturn ==
    /\ b_pc = "gathering"
    /\ \A i \in DOMAIN b_task : b_task[i] = "done"
    /\ b_out' = [i \in DOMAIN b_res |-> batch_entry(b_res[i], b_targets[i])]
    /\ b_pc' = "returned"
    /\ UNCHANGED <<now, b_targets, b_max, b_sem, b_task, b_res>>
    /\ UNCHANGED <<vars_breaker, vars_ledger, vars_pipe, vars_orch, vars_score, vars_obs, vars_cache, vars_v2, vars_lake>>

\* no batch yet
BatchIdle ==
    /\ b_pc = "idle"
    /\ b_targets = <<>>
    /\ b_max = 0
    /\ b_sem = 0
    /\ b_task = <<>>
    /\ b_res = <<>>
    /\ b_out = <<>>

-----------------------------------------------------------------------------
(* Specifications *)

InitBreaker == now = 0 /\ BreakerIdle /\ LedgerIdle /\ PipeIdle /\ OrchIdle /\ ScoreIdle /\ ObserveIdle /\ CacheIdle /\ BatchIdle /\ EngineIdle /\ LakeIdle

NextBreaker ==
    \/ \E r \in Runs : GuardedEnter(r)
    \/ \E r \in Runs : GuardedSuccess(r)
    \/ \E r \in Runs : GuardedFailure(r)
    \/ BreakerClock

\* One breaker shared by NumRuns concurrent pipeline runs.
SpecBreaker == InitBreaker /\ [][NextBreaker]_vars

NextBreakerLive ==
    \/ \E r \in Runs : GuardedEnter(r)
    \/ \E r \in Runs : GuardedSuccess(r)
    \/ \E r \in Runs : GuardedFailureInTime(r)
    \/ BreakerClock
    \/ BreakerRecoveryElapses

\* One breaker shared by NumRuns concurrent pipeline runs, with time that
\* keeps advancing, runs that keep calling can_execute, and collectors that
\* wait_for ends after 12 seconds at the latest.
SpecBreakerLive ==
    /\ InitBreaker
    /\ [][NextBreakerLive]_vars
    /\ WF_vars(BreakerRecoveryElapses)
    /\ \A r \in Runs : WF_vars(GuardedEnter(r))
    /\ \A r \in Runs : WF_vars(GuardedReturn(r))

InitLedger == now = 0 /\ BreakerIdle /\ LedgerIdle /\ PipeIdle /\ OrchIdle /\ ScoreIdle /\ ObserveIdle /\ CacheIdle /\ BatchIdle /\ EngineIdle /\ LakeIdle

\* the create_block calls a writer may start
CreateBlockCall(w) ==
    \E e \in Entities, s \in Sensors : \E p \in Payloads(s) :
        CreateBlockHead(w, e, s, p)

NextLedger ==
    \/ CreateBlockCall(1)
    \/ CreateBlockLast(1)
    \/ CreateBlockAppend(1)
    \/ LedgerClock

\* A single writer appends to the ledger: every create_block runs alone.
SpecLedger == InitLedger /\ [][NextLedger]_vars

\* a rewrite of the payload of some stored block
Tamper ==
    \E x \in ch_blocks : \E p \in Payloads(x.json.sensor) : TamperSignals(x.key, p)

NextLedgerTamper ==
    \/ CreateBlockCall(1)
    \/ CreateBlockLast(1)
    \/ CreateBlockAppend(1)
    \/ Tamper

\* A single writer, and stored payloads that get rewritten behind its back
\* (within the time to live of the block keys: the clock stands still).
SpecLedgerTamper == InitLedger /\ [][NextLedgerTamper]_vars

NextLedgerConcurrent ==
    \/ \E w \in Writers : CreateBlockCall(w)
    \/ \E w \in Writers : CreateBlockLast(w)
    \/ \E w \in Writers : CreateBlockAppend(w)
    \/ LedgerClock

\* Several writers (workers, processes) append concurrently.
SpecLedgerConcurrent == InitLedger /\ [][NextLedgerConcurrent]_vars

\* a rewrite of a field of some stored block that compute_hash leaves out
TamperUnhashed ==
    \E x \in ch_blocks : \E d \in {<<>>, FakeDelta} : TamperDelta(x.key, d)

\* a rewrite of a field of some stored block that compute_hash covers
TamperHashed ==
    \E x \in ch_blocks : \E at \in {0, 1} : TamperObservedAt(x.key, at)

NextLedgerRewrite ==
    \/ CreateBlockCall(1)
    \/ CreateBlockLast(1)
    \/ CreateBlockAppend(1)
    \/ TamperUnhashed
    \/ TamperHashed

\* A single writer, and stored blocks whose fields get rewritten behind its
\* back (the clock stands still).
SpecLedgerRewrite == InitLedger /\ [][NextLedgerRewrite]_vars

\* the create_block calls of the sensors whose deltas carry a severity
CreateBlockCallDelta(w) ==
    \E e \in Entities, s \in DeltaSensors : \E p \in Payloads(s) :
        CreateBlockHead(w, e, s, p)

NextLedgerDelta ==
    \/ CreateBlockCallDelta(1)
    \/ CreateBlockLast(1)
    \/ CreateBlockAppend(1)
    \/ LedgerClock

\* A single writer records the observations of three sensors, one
\* create_block after the other.
SpecLedgerDelta == InitLedger /\ [][NextLedgerDelta]_vars

\* the record_observation calls a writer may start
RecordObservation(w) ==
    \E e \in Entities, s \in Sensors : \E p \in Payloads(s) : \E disk_ok \in BOOLEAN :
        RecordObservationCall(w, e, s, p, disk_ok)

\* the lake write of the block goes through, or raises
LakeWrite(w) == \E raised \in BOOLEAN : LakeWriteBlock(w, raised)

NextLedgerLake ==
    \/ RecordObservation(1)
    \/ CreateBlockLast(1)
    \/ RecordObservationAppend(1)
    \/ LakeWrite(1)
    \/ LedgerClock

\* A single writer records observations through record_observation, with a
\* lake whose directory may be impossible to create and whose writes may
\* raise.
SpecLedgerLake == InitLedger /\ [][NextLedgerLake]_vars

InitPipe == now = 0 /\ BreakerIdle /\ LedgerIdle /\ PipeIdle /\ OrchIdle /\ ScoreIdle /\ ObserveIdle /\ CacheIdle /\ BatchIdle /\ EngineIdle /\ LakeIdle

\* the calls a caller may start (none of them a preview)
StartCall(p, up) ==
    \E m \in Modules, t \in Targets, f \in BOOLEAN : Call(p, m, t, f, FALSE, up)

NextPipe ==
    \/ \E p \in Calls, up \in BOOLEAN : StartCall(p, up)
    \/ \E p \in Calls, up \in BOOLEAN : AcquireLock(p, up)
    \/ \E p \in Calls, up \in BOOLEAN : WakeRecheck(p, up)
    \/ \E p \in Calls, up \in BOOLEAN : LookupRaises(p, up)
    \/ \E p \in Calls : Collect(p, FALSE)
    \/ \E p \in Calls, up \in BOOLEAN : ScoreRaises(p, up)
    \/ \E p \in Calls, up \in BOOLEAN : CacheSet(p, up)
    \/ \E p \in Calls, up \in BOOLEAN : ReleaseLock(p, up)
    \/ PipeClock

\* Concurrent compute calls against a cache store whose commands may fail.
SpecPipe == InitPipe /\ [][NextPipe]_vars

InitOrch == now = 0 /\ BreakerIdle /\ LedgerIdle /\ PipeIdle /\ OrchIdle /\ ScoreIdle /\ ObserveIdle /\ CacheIdle /\ BatchIdle /\ EngineIdle /\ LakeIdle

NextOrch ==
    \/ \E d \in BOOLEAN : OrchStart(d)
    \/ \E c \in OrchCollectors : OrchGuardedEnter(c)
    \/ \E c \in OrchCollectors : \E data \in OrchPayloads(c) : OrchGuardedSuccess(c, data)
    \/ \E c \in OrchCollectors, kind \in {"timeout", "error"} : OrchGuardedFailure(c, kind)
    \/ OrchMerge
    \/ OrchClock

\* Orchestration runs, one after the other, over the breakers of the process.
SpecOrch == InitOrch /\ [][NextOrch]_vars

\* every task of a run ends: the gate is synchronous, and
\* asyncio.wait_for(coro, timeout=12.0) ends an awaited collector
TaskEnds(c) ==
    \/ OrchGuardedEnter(c)
    \/ \E data \in OrchPayloads(c) : OrchGuardedSuccess(c, data)
    \/ \E kind \in {"timeout", "error"} : OrchGuardedFailure(c, kind)

\* The orchestration runs under the event loop's scheduling: a task that
\* can take a step, and the merge after gather, are eventually run.
SpecOrchLive ==
    /\ InitOrch /\ [][NextOrch]_vars
    /\ \A c \in OrchCollectors : WF_vars(TaskEnds(c))
    /\ WF_vars(OrchMerge)

InitScore ==
    /\ now = 0 /\ BreakerIdle /\ LedgerIdle /\ PipeIdle /\ OrchIdle /\ ObserveIdle /\ CacheIdle /\ BatchIdle /\ EngineIdle /\ LakeIdle
    /\ s_raw \in SignalProfiles
    /\ s_result = NoScore
    /\ s_capped = NoCapped
    /\ s_edits = 0
    /\ h_raw_score = 0

NextScore ==
    \/ \E f \in DOMAIN RawSignalsDefault : \E v \in SignalValues[f] : SetSignal(f, v)
    \/ ComputeScore
    \/ \E score \in RawScores : ApplyHardCaps(score)

\* Signal sets, each scored once.
SpecScore == InitScore /\ [][NextScore]_vars

InitObserve ==
    now = 0 /\ BreakerIdle /\ LedgerIdle /\ PipeIdle /\ OrchIdle /\ ScoreIdle /\ ObserveIdle /\ CacheIdle /\ BatchIdle /\ EngineIdle /\ LakeIdle

NextObserve ==
    \/ \E target \in ObserveTargets : ObserveStart(target)
    \/ \E outcome \in SensorOutcomes, up \in BOOLEAN, payload \in AllPayloads :
          ObserveResult(outcome, payload, up)
    \/ \E up \in BOOLEAN : ObserveScore(up)

\* One observation of one target.
SpecObserve == InitObserve /\ [][NextObserve]_vars

InitCache ==
    now = 0 /\ BreakerIdle /\ LedgerIdle /\ PipeIdle /\ OrchIdle /\ ScoreIdle /\ ObserveIdle /\ CacheIdle /\ BatchIdle /\ EngineIdle /\ LakeIdle

NextCache ==
    \/ \E t \in CacheTargets, d \in CacheResults, r \in BOOLEAN, pv \in BOOLEAN,
          f \in BOOLEAN, up \in BOOLEAN :
          CacheClientSet(CacheModule, t, d, r, pv, f, up)
    \/ \E t \in CacheTargets, up \in BOOLEAN : CacheClientGet(CacheModule, t, up)
    \/ \E t \in CacheTargets, up \in BOOLEAN : CacheClientInvalidate(CacheModule, t, up)
    \/ \E t \in CacheTargets, up \in BOOLEAN : CacheClientAcquire(CacheModule, t, up)
    \/ \E t \in CacheTargets, up \in BOOLEAN : CacheClientRelease(CacheModule, t, up)
    \/ CacheClock

\* Direct callers of one ScoreCache, against a store whose commands may fail.
SpecCache == InitCache /\ [][NextCache]_vars

\* the steps of a call that was refused the lock, from the end of its sleep on
WaiterStep(p) ==
    /\ ~p_lock_acquired[p]
    /\ \E up \in BOOLEAN :
          \/ WakeRecheck(p, up)
          \/ LookupRaises(p, up)
          \/ Collect(p, FALSE)
          \/ ScoreRaises(p, up)
          \/ CacheSet(p, up)
          \/ ReleaseLock(p, up)

NextPipeLive ==
    \/ \E p \in Calls, up \in BOOLEAN : Call(p, "compute_trust_score", TargetPlain, FALSE, FALSE, up)
    \/ \E p \in Calls, up \in BOOLEAN : Call(p, "score_entity", TargetUrl, FALSE, FALSE, up)
    \/ \E p \in Calls, up \in BOOLEAN : AcquireLock(p, up)
    \/ \E p \in Calls, up \in BOOLEAN : WakeRecheck(p, up)
    \/ \E p \in Calls, up \in BOOLEAN : LookupRaises(p, up)
    \/ \E p \in Calls : Collect(p, FALSE)
    \/ \E p \in Calls, up \in BOOLEAN : ScoreRaises(p, up)
    \/ \E p \in Calls, up \in BOOLEAN : CacheSet(p, up)
    \/ \E p \in Calls, up \in BOOLEAN : ReleaseLock(p, up)
    \/ PipeClock
    \/ PipeSleepEnds
    \/ PipeLockExpires

\* Concurrent compute calls under a running event loop: asyncio.sleep(1.5)
\* ends, the store lets a lock key run out, and a call that was refused the
\* lock keeps being scheduled (its collectors run under timeouts); a call
\* that holds the lock may stall for ever.
SpecPipeLive ==
    /\ InitPipe
    /\ [][NextPipeLive]_vars
    /\ WF_vars(PipeSleepEnds)
    /\ WF_vars(PipeLockExpires)
    /\ \A p \in Calls : WF_vars(WaiterStep(p))

InitCalls ==
    now = 0 /\ BreakerIdle /\ LedgerIdle /\ PipeIdle /\ OrchIdle /\ ScoreIdle /\ ObserveIdle /\ CacheIdle /\ BatchIdle /\ EngineIdle /\ LakeIdle

\* no other call is under way
Alone(p) == \A q \in Calls \ {p} : p_pc[q] \in {"idle", "done", "raised"}

\* a caller makes its next call once its last one has ended
CallNext(p, m, target, force_refresh, is_preview) ==
    /\ Alone(p)
    /\ StartsPlainly(m, target, force_refresh, k_up)
    /\ Call(p, m, target, force_refresh, is_preview, k_up)

CallNextRaises(p, m, target, force_refresh, is_preview) ==
    /\ Alone(p)
    /\ CallRaises(p, m, target, force_refresh, is_preview, k_up)

NextCalls ==
    \/ \E p \in Calls, m \in Modules, t \in CallTargets, f \in BOOLEAN :
          CallNext(p, m, t, f, FALSE)
    \/ \E p \in Calls, m \in Modules, t \in CallTargets, f \in BOOLEAN :
          CallNextRaises(p, m, t, f, FALSE)
    \/ \E p \in Calls : AcquireLock(p, k_up)
    \/ \E p \in Calls : WakeRecheck(p, k_up)
    \/ \E p \in Calls : LookupRaises(p, k_up)
    \/ \E p \in Calls : Collect(p, FALSE)
    \/ \E p \in Calls : ScoreRaises(p, k_up)
    \/ \E p \in Calls : CacheSet(p, k_up)
    \/ \E p \in Calls : ReleaseLock(p, k_up)
    \/ Invalidate("compute_trust_score", TargetPlain, k_up)
    \/ StoreFlips
    \/ PipeClock

\* Compute calls, one after the other, against a store that comes and goes;
\* a refresh job invalidates entries in between.
SpecCalls == InitCalls /\ [][NextCalls]_vars

InitEngine ==
    /\ now = 0 /\ BreakerIdle /\ LedgerIdle /\ PipeIdle /\ OrchIdle /\ ScoreIdle
    /\ ObserveIdle /\ CacheIdle /\ BatchIdle /\ LakeIdle
    /\ v2_sig \in EngineProfiles
    /\ v2_result = NoTrustScore
    /\ v2_edits = 0

\* the caller fills in any signal of any of the five signal objects
FillSignal ==
    \E pillar \in Pillars : \E f \in DOMAIN EngineDefault[pillar] :
        \E v \in EngineValues(pillar, f) : SetEngineSignal(pillar, f, v)

NextEngine ==
    \/ FillSignal
    \/ CalculateTrustScore

\* Sets of pillar signals, each scored once by the v2 engine.
SpecEngine == InitEngine /\ [][NextEngine]_vars

InitBatch ==
    now = 0 /\ BreakerIdle /\ LedgerIdle /\ PipeIdle /\ OrchIdle /\ ScoreIdle /\ ObserveIdle /\ CacheIdle /\ BatchIdle /\ EngineIdle /\ LakeIdle

NextBatch ==
    \/ \E targets \in BatchLists, n \in 0..MaxConcurrent : BatchStart(targets, n)
    \/ \E i \in 1..MaxBatch : BatchEnter(i)
    \/ \E i \in 1..MaxBatch : \E t \in BatchTargets : \E o \in CallOutcomes(t) : BatchLeave(i, o)
    \/ BatchReturn

\* a _score_one task is run to its end
ScoreOneEnds(i) ==
    \/ BatchEnter(i)
    \/ \E t \in BatchTargets : \E o \in CallOutcomes(t) : BatchLeave(i, o)

\* One batch under the event loop's scheduling: a task that can take a step
\* is eventually run (every compute_trust_score call ends: its collectors run
\* under a 12 s timeout and its lock wait is one 1.5 s sleep), and so is the
\* code after gather.
SpecBatch ==
    /\ InitBatch /\ [][NextBatch]_vars
    /\ \A i \in 1..MaxBatch : WF_vars(ScoreOneEnds(i))
    /\ WF_vars(BatchReturn)

-----------------------------------------------------------------------------
(* Properties of the compute lock and of the deduplication of compute calls *)

\* the cache keys of two calls in progress are the same
SameKey(p, q) == _normalize_key(p_args[p].target) = _normalize_key(p_args[q].target)

\* the call's collectors have run and its result is not cached yet
InCycle(p) == p_pc[p] = "collected" /\ ~p_args[p].force_refresh

AcquireStep(p) == p_pc[p] = "acquire" /\ p_pc'[p] \in {"compute", "sleep"}

\* the lock key of the target of call p
LockOf(p) == r_lock[_normalize_key(p_args[p].target)]

\* C2 (as claimed): while the lock key exists, every acquire_lock for that
\* key returns false.
C2_LockKeyExcludes ==
    [][\A p \in Calls :
          (AcquireStep(p) /\ KeyLive(LockOf(p))) => ~p_lock_acquired'[p]]_vars

\* C2 (amended): when the store answers the command, acquire_lock returns
\* true exactly if the lock key did not exist, and then the key exists for
\* LOCK_TTL seconds; so of the calls for targets that normalize to one key
\* the store lets one set the key while it exists.
C2_LockExclusiveWhenStoreAnswers ==
    /\ [][\A p \in Calls :
            (AcquireStep(p) /\ h_answered'[p])
                => /\ p_lock_acquired'[p] <=> ~KeyLive(LockOf(p))
                   /\ p_lock_acquired'[p]
                        => /\ r_lock'[_normalize_key(p_args[p].target)].exists
                           /\ r_lock'[_normalize_key(p_args[p].target)].expires
                                = now + LOCK_TTL * 1000]_vars
    /\ [](\A k \in Keys : h_grants[k] <= 1)

\* C2 witness: two calls name one host in two spellings; the store gave the
\* lock to one and, the key still existing, refused the other.
C2_Witness ==
    \E p \in Calls, q \in Calls :
        /\ p # q
        /\ p_pc[p] = "compute" /\ p_lock_acquired[p] /\ h_answered[p]
        /\ p_pc[q] = "sleep" /\ ~p_lock_acquired[q] /\ h_answered[q]
        /\ p_args[p].target # p_args[q].target
        /\ KeyLive(LockOf(p))

-----------------------------------------------------------------------------
(* Properties of the ledger *)

\* the blocks of an entity that verify_chain(e, limit) reads, as stored
Window(e, limit) ==
    LET h == get_entity_history(e, limit) IN {h[i] : i \in DOMAIN h}

\* C3 (SpecLedger): with a single writer the first block of an entity has
\* index 0 and prev_hash = GENESIS_HASH, and every later block has the index
\* of its predecessor plus one and its predecessor's block_hash as prev_hash.
C3_ChainLinkage ==
    \A e \in Entities : \A i \in DOMAIN h_created[e] :
        LET b == h_created[e][i]
        IN  /\ b.block_index = i - 1
            /\ b.prev_hash = IF i = 1 THEN GENESIS_HASH
                             ELSE h_created[e][i - 1].block_hash
            /\ b.block_hash = compute_hash(b)
            /\ b.block_hash # GENESIS_HASH

\* C3 witness: three blocks were appended to one entity, by two sensors.
C3_Witness ==
    \E e \in Entities :
        /\ Len(h_created[e]) >= 3
        /\ h_created[e][2].sensor # h_created[e][3].sensor

\* C4 (SpecLedger): after any sequence of create_block calls of a single
\* writer, verify_chain reports verified = true and no break, for every
\* limit, also one shorter than the chain.
C4_FreshChainVerifies ==
    \A e \in Entities : \A limit \in 1..MaxLimit :
        LET r == verify_chain(e, limit)
        IN  r.verified /\ Breaks(r) = <<>>

\* C4 witness: a chain of three blocks whose last two are verified with
\* limit 2, the first of them with a non-empty payload.
C4_Witness ==
    \E e \in Entities :
        /\ Len(h_created[e]) >= 3
        /\ verify_chain(e, 2).blocks_checked = 2
        /\ h_created[e][2].signals # <<>>

\* a stored block whose payload is no longer the one it was appended with
IsTampered(e, j) ==
    \E i \in DOMAIN h_created[e] :
        /\ h_created[e][i].block_hash = j.block_hash
        /\ h_created[e][i].signals # JsonLoads(j.signals)

\* C5 (SpecLedgerTamper): every stored block inside the verified window
\* whose payload was changed without its block_hash makes verify_chain
\* answer verified = false and list a hash_mismatch with that block's index.
C5_TamperDetected ==
    \A e \in Entities : \A limit \in 1..MaxLimit : \A j \in Window(e, limit) :
        IsTampered(e, j) =>
            LET r == verify_chain(e, limit)
            IN  /\ ~r.verified
                /\ \E k \in DOMAIN Breaks(r) :
                      /\ Breaks(r)[k].type = "hash_mismatch"
                      /\ Breaks(r)[k].block_index = j.block_index

\* C5 witness: two tampered blocks are inside the window of one verify_chain.
C5_Witness ==
    \E e \in Entities :
        Cardinality({j \in Window(e, 2) : IsTampered(e, j)}) = 2

\* C6 (SpecLedgerConcurrent): concurrent writers leave the chain of an
\* entity intact: distinct gap-free indices, no two blocks with the same
\* prev_hash, every prev_hash the hash of the block one index below, and no
\* break reported by verify_chain.
C6_ConcurrentWritersKeepChain ==
    \A e \in Entities :
        /\ \A i \in DOMAIN h_created[e] :
              /\ h_created[e][i].block_index = i - 1
              /\ h_created[e][i].prev_hash =
                    IF i = 1 THEN GENESIS_HASH ELSE h_created[e][i - 1].block_hash
        /\ \A i, k \in DOMAIN h_created[e] :
              i # k => h_created[e][i].prev_hash # h_created[e][k].prev_hash
        /\ \A limit \in 1..MaxLimit :
              verify_chain(e, limit).verified /\ Breaks(verify_chain(e, limit)) = <<>>

-----------------------------------------------------------------------------
(* Properties of the circuit breaker (checked under SpecBreaker) *)

\* a step in which run r called can_execute and the call left a trace
EnterStep(r) ==
    /\ g_pc[r] = "idle"
    /\ \/ g_pc'[r] = "running"
       \/ g_last'[r] # g_last[r]

\* a step in which run r's collector outcome was recorded on the breaker
RecordStep(r) == g_pc[r] = "running" /\ g_pc'[r] = "idle"

BreakerUnchanged == UNCHANGED <<br_state, br_failures, br_last_failure_time>>

\* C7: a closed breaker admits calls and stays closed while fewer than
\* Threshold consecutive failures have been recorded (a success resets the
\* count); the failure that brings the count to Threshold opens it.
C7_ClosedUntilThreshold ==
    /\ [](br_state = "closed" /\ h_consec < Threshold
            => can_execute_result /\ can_execute_state = "closed")
    /\ [][ /\ (br_state = "closed" /\ h_consec' < Threshold
                 => br_state' = "closed")
           /\ (br_state = "closed" /\ h_consec' = Threshold
                 => br_state' = "open")
           /\ \A r \in Runs :
                 RecordStep(r) /\ g_last'[r] = "success" => h_consec' = 0
         ]_vars

\* C7 witness: the third consecutive failure has just opened the breaker.
C7_Witness ==
    /\ br_state = "open"
    /\ h_recorded_in = "closed"
    /\ h_consec = Threshold

\* C8: an open breaker refuses every call, changing none of its fields,
\* while no more than RecoveryTimeout has passed since the last recorded
\* failure; a call made after that is admitted and moves it to half-open.
C8_OpenUntilRecovery ==
    [][ \A r \in Runs :
          EnterStep(r) /\ br_state = "open" =>
            IF now - h_last_fail_at <= RecoveryTimeout
              THEN /\ g_pc'[r] = "idle"
                   /\ g_last'[r] = "skipped"
                   /\ BreakerUnchanged
              ELSE /\ g_pc'[r] = "running"
                   /\ br_state' = "half-open"
      ]_vars

\* C8 witness: one run was refused while the breaker was open, and another
\* was admitted as the trial once the recovery window had passed.
C8_Witness ==
    /\ br_state = "half-open"
    /\ \E r \in Runs : g_pc[r] = "running" /\ g_trial[r]
    /\ \E r \in Runs : g_pc[r] = "idle" /\ g_last[r] = "skipped"

\* C9: a half-open breaker admits exactly one trial call: no second call is
\* admitted while the trial's outcome has not been recorded.
C9_SingleTrial ==
    Cardinality({r \in Runs : g_pc[r] = "running" /\ g_trial[r]}) <= 1

\* C10: from half-open, record_success closes the breaker with failures = 0;
\* record_failure opens it with last_failure_time set to the time of that
\* failure, and no trial is admitted again until more than RecoveryTimeout
\* has passed since it.
C10_HalfOpenOutcome ==
    [][ /\ \A r \in Runs :
             RecordStep(r) /\ br_state = "half-open" =>
               IF g_last'[r] = "success"
                 THEN br_state' = "closed" /\ br_failures' = 0
                 ELSE br_state' = "open" /\ br_last_failure_time' = now
        /\ (br_state = "open" /\ br_state' = "half-open"
              => now - h_last_fail_at > RecoveryTimeout)
      ]_vars

\* C10 witness: the trial of a half-open breaker has just failed, after an
\* earlier failure had opened the breaker and a recovery window had passed.
C10_Witness ==
    /\ h_recorded_in = "half-open"
    /\ br_state = "open"
    /\ br_last_failure_time = now
    /\ now > RecoveryTimeout


-----------------------------------------------------------------------------
(* Properties of the collection orchestrator *)

\* the breaker of collector c is open and its recovery timeout has not elapsed
Refuses(c) ==
    /\ o_br[c].state = "open"
    /\ now - o_br[c].last_failure_time <= o_br[c].recovery_timeout

\* the task of collector c consults its breaker
GateStep(c) ==
    /\ o_run = "gathering" /\ o_run' = "gathering"
    /\ o_task[c] = "pending" /\ o_task'[c] # "pending"

ErrorNames == {o_meta.errors[i][1] : i \in DOMAIN o_meta.errors}
RespondedNames == {o_meta.data_sources[i] : i \in DOMAIN o_meta.data_sources}
SkippedNames == {o_meta.skipped[i] : i \in DOMAIN o_meta.skipped}

\* C11: when the breaker of a collector refuses execution, the collector is
\* not awaited, its task returns the empty mapping, its name is appended to
\* the skipped list, the errors and data_sources lists stay as they are, and
\* the breaker's failure count, last-failure time and state are unchanged;
\* at the end of the run the collector's slot is the empty mapping and its
\* name is in neither errors nor data_sources.
C11_RefusedIsSkipped ==
    /\ [][\A c \in OrchCollectors :
            (Refuses(c) /\ GateStep(c)) =>
                /\ ~h_awaited'[c]
                /\ o_task'[c] = "returned"
                /\ o_item'[c] = <<c, <<>>>>
                /\ o_meta'.skipped = Append(o_meta.skipped, c)
                /\ o_meta'.errors = o_meta.errors
                /\ o_meta'.data_sources = o_meta.data_sources
                /\ o_br'[c] = o_br[c]]_vars
    /\ [](o_run = "returned" =>
            \A c \in SkippedNames :
                /\ ~h_awaited[c]
                /\ o_results[c] = <<>>
                /\ c \notin ErrorNames
                /\ c \notin RespondedNames)

\* a run that returned after the open breaker of "web" refused its collector
C11_Witness ==
    /\ o_run = "returned"
    /\ o_meta.skipped = <<"web">>
    /\ o_br["web"].state = "open"
    /\ o_results["web"] = <<>>
    /\ "knowledge" \in RespondedNames

\* the task of collector c ends with a timeout or another exception
FailStep(c) == h_outcome[c] = "none" /\ h_outcome'[c] \in {"timeout", "error"}

\* the task of collector c ends with the collector's signals
SuccessStep(c) == h_outcome[c] = "none" /\ h_outcome'[c] = "success"

\* C12: a collector that times out or raises returns the empty mapping for
\* its own slot, adds exactly one failure to its own breaker and exactly one
\* entry to the errors list; a collector that succeeds resets its breaker;
\* the step of a failing collector leaves every sibling's task, result and
\* breaker as they were; and every run that started gathering returns, with
\* a slot for every task, empty for the failed ones and with the collector's
\* signals for the successful ones.
C12_FailureIsIsolated ==
    /\ [][\A c \in OrchCollectors :
            /\ FailStep(c) =>
                /\ o_item'[c] = <<c, <<>>>>
                /\ o_br'[c].failures = o_br[c].failures + 1
                /\ Len(o_meta'.errors) = Len(o_meta.errors) + 1
                /\ SubSeq(o_meta'.errors, 1, Len(o_meta.errors)) = o_meta.errors
                /\ o_meta'.errors[Len(o_meta'.errors)][1] = c
                /\ o_meta'.data_sources = o_meta.data_sources
                /\ \A d \in OrchCollectors \ {c} :
                      /\ o_br'[d] = o_br[d]
                      /\ o_item'[d] = o_item[d]
                      /\ o_task'[d] = o_task[d]
                      /\ h_outcome'[d] = h_outcome[d]
            /\ SuccessStep(c) =>
                /\ o_br'[c].failures = 0
                /\ o_br'[c].state = "closed"
                /\ o_item'[c][2] \in OrchPayloads(c)]_vars
    /\ [](o_run = "returned" =>
            \A i \in DOMAIN o_tasks :
                /\ o_tasks[i] \in DOMAIN o_results
                /\ h_outcome[o_tasks[i]] \in {"timeout", "error"} =>
                       o_results[o_tasks[i]] = <<>>
                /\ h_outcome[o_tasks[i]] = "success" =>
                       /\ o_results[o_tasks[i]] = o_item[o_tasks[i]][2]
                       /\ o_results[o_tasks[i]] \in OrchPayloads(o_tasks[i]))
    /\ (o_run = "gathering") ~> (o_run = "returned")

\* a run that returned with "web" timed out and "knowledge" successful
C12_Witness ==
    /\ o_run = "returned"
    /\ h_outcome["web"] = "timeout"
    /\ h_outcome["knowledge"] = "success"
    /\ o_results["web"] = <<>>
    /\ o_results["knowledge"] = [has_wikipedia_page |-> TRUE]
    /\ o_br["web"].failures = 2
    /\ o_br["knowledge"].failures = 0


-----------------------------------------------------------------------------
(* Properties of the scoring engine *)

Computed == s_result # NoScore

\* C14: every sub-score of a computed result lies between 0 and the cap of
\* its category (300, 300, 250, 150), whatever the sum of its breakdown is,
\* and the composite before the hard caps is the sum of the four sub-scores,
\* between 0 and 1000.
C14_SubScoresClamped ==
    Computed =>
        /\ s_result.existence_age \in 0..300
        /\ s_result.security_integrity \in 0..300
        /\ s_result.reputation_scale \in 0..250
        /\ s_result.operational_maturity \in 0..150
        /\ h_raw_score = s_result.existence_age + s_result.security_integrity
                       + s_result.reputation_scale + s_result.operational_maturity
        /\ h_raw_score \in 0..1000

\* the penalty of a five-day-old domain makes the existence sum negative
C14_Witness ==
    /\ Computed
    /\ existence_and_age_raw(s_raw) < 0
    /\ s_result.existence_age = 0
    /\ s_result.security_integrity > 0
    /\ h_raw_score > 0

\* none of the five conditions of the hard caps holds for signal set s
NoCapCondition(s) ==
    /\ ~s.on_sanctions_list
    /\ ~s.on_fraud_blocklist
    /\ ~(s.gsb_queried /\ s.gsb_flagged)
    /\ ~(s.vt_queried /\ s.vt_malicious_count + s.vt_suspicious_count >= 6)
    /\ ~(s.domain_age_days > 0 /\ s.domain_age_days < 30 /\ s.tranco_rank = 0)

\* C15: the score apply_hard_caps returns is never above the raw composite
\* it was given, and when no cap condition holds it is the raw composite and
\* cap_applied is None; the same holds for the score of compute_score.
C15_CapsNeverRaise ==
    /\ s_capped # NoCapped =>
        /\ s_capped[2][1] <= s_capped[1]
        /\ NoCapCondition(s_raw) => s_capped[2] = <<s_capped[1], None>>
    /\ Computed =>
        /\ s_result.score <= h_raw_score
        /\ NoCapCondition(s_raw) =>
              s_result.score = h_raw_score /\ s_result.cap_applied = None

\* a composite of 1000 cut down to the ceiling of the fraud blocklist
C15_Witness ==
    /\ s_capped # NoCapped
    /\ s_capped[1] = 1000
    /\ s_capped[2] = <<50, "FRAUD_BLOCKLISTED">>

\* the caps whose condition holds for signal set s, as <<ceiling, name>>
ApplicableCaps(s) ==
    {cap \in {<<0, "SANCTIONED">>, <<50, "FRAUD_BLOCKLISTED">>,
              <<100, "NEW_DOMAIN_NO_REPUTATION">>,
              <<150, "GOOGLE_SAFE_BROWSING_FLAGGED">>,
              <<200, "VIRUSTOTAL_HIGH_FLAGS">>} :
        \/ cap[1] = 0 /\ s.on_sanctions_list
        \/ cap[1] = 50 /\ s.on_fraud_blocklist
        \/ cap[1] = 100 /\ s.domain_age_days > 0 /\ s.domain_age_days < 30
                        /\ s.tranco_rank = 0
        \/ cap[1] = 150 /\ s.gsb_queried /\ s.gsb_flagged
        \/ cap[1] = 200 /\ s.vt_queried
                        /\ s.vt_malicious_count + s.vt_suspicious_count >= 6}

\* C16: when cap conditions hold, the final score is the smaller of the raw
\* composite and the lowest ceiling among the applicable caps, and
\* cap_applied names the cap with that lowest ceiling.
C16_LowestCeilingBinds ==
    (Computed /\ ApplicableCaps(s_raw) # {}) =>
        \E cap \in ApplicableCaps(s_raw) :
            /\ \A other \in ApplicableCaps(s_raw) : cap[1] <= other[1]
            /\ s_result.score = (IF h_raw_score <= cap[1] THEN h_raw_score ELSE cap[1])
            /\ s_result.cap_applied = cap[2]

\* C17: a signal set on the fraud blocklist and not on the sanctions list
\* gets a final score of at most 50 and cap_applied "FRAUD_BLOCKLISTED",
\* whatever else it holds.
C17_FraudBlocklistCaps ==
    (Computed /\ s_raw.on_fraud_blocklist /\ ~s_raw.on_sanctions_list) =>
        /\ s_result.score <= 50
        /\ s_result.cap_applied = "FRAUD_BLOCKLISTED"

\* every positive signal is present and the composite is far above 50
C17_Witness ==
    /\ Computed
    /\ s_raw.on_fraud_blocklist /\ ~s_raw.on_sanctions_list
    /\ s_raw.has_wikipedia /\ s_raw.tranco_rank = 50
    /\ h_raw_score > 500
    /\ s_result.score = 50

\* C18: a signal set with domain_age_days = 5 and tranco_rank = 0, on no
\* blocklist, not flagged by Safe Browsing and without six VirusTotal flags,
\* gets cap_applied "NEW_DOMAIN_NO_REPUTATION" and a final score of at most
\* 100, also with every DNS record and security header present.
C18_NewDomainCaps ==
    ( /\ Computed
      /\ s_raw.domain_age_days = 5 /\ s_raw.tranco_rank = 0
      /\ ~s_raw.on_sanctions_list /\ ~s_raw.on_fraud_blocklist
      /\ ~(s_raw.gsb_queried /\ s_raw.gsb_flagged)
      /\ ~(s_raw.vt_queried
           /\ s_raw.vt_malicious_count + s_raw.vt_suspicious_count >= 6) ) =>
        /\ s_result.cap_applied = "NEW_DOMAIN_NO_REPUTATION"
        /\ s_result.score <= 100

\* all DNS records and headers are present and lift the composite over 100
C18_Witness ==
    /\ Computed
    /\ s_raw.domain_age_days = 5 /\ s_raw.tranco_rank = 0
    /\ s_raw.dns_has_spf /\ s_raw.dns_has_dmarc /\ s_raw.dns_has_dkim
    /\ s_raw.dns_has_dnssec
    /\ s_raw.http_has_hsts /\ s_raw.http_has_csp /\ s_raw.http_has_xframe
    /\ s_raw.http_has_xcontent_type /\ s_raw.http_has_referrer_policy
    /\ s_raw.http_has_permissions_policy
    /\ h_raw_score > 100
    /\ s_result.score = 100
    /\ s_result.cap_applied = "NEW_DOMAIN_NO_REPUTATION"

\* C19: the signal set {domain_age_days: 4000, ssl_valid, dns_has_spf,
\* dns_has_dmarc, tranco_rank: 500, vt_malicious_count: 0}, all else at its
\* default and all nine sources responded, is scored with confidence 1.0,
\* no cap, a composite between 650 and 849 with grade A or AA, and the
\* recommendation PROCEED.
C19_ExampleSafeScore ==
    (Computed /\ s_raw = SignalsExampleSafe) =>
        /\ s_result.confidence[1] = s_result.confidence[2]
        /\ s_result.cap_applied = None
        /\ s_result.score \in 650..849
        /\ s_result.grade \in {"A", "AA"}
        /\ s_result.recommendation = "PROCEED"


-----------------------------------------------------------------------------
(* Properties of the sensor network *)

\* the sensors whose result the loop has handled
Handled == {ob_keys[i] : i \in 1..(ob_i - 1)}

BlockSensors == {ob_chain[i].sensor : i \in DOMAIN ob_chain}
RespondedSensors == {ob_raw.sources_responded[i] : i \in DOMAIN ob_raw.sources_responded}
ErrorSensors == {ob_raw.collection_errors[i] : i \in DOMAIN ob_raw.collection_errors}

\* C13: a sensor whose call timed out or raised is not in sources_responded,
\* has its failure in collection_errors, contributes no signal keys, and has
\* no observation block in the chain; only sensors whose call succeeded are
\* in sources_responded or have a block.
C13_FailedSensorNotResponded ==
    \A sensor \in Handled :
        /\ h_sensor_outcome[sensor] \in {"timeout", "raised"} =>
              /\ sensor \notin RespondedSensors
              /\ sensor \in ErrorSensors
              /\ ob_results[sensor] = <<>>
              /\ sensor \notin BlockSensors
        /\ sensor \in RespondedSensors \cup BlockSensors =>
              h_sensor_outcome[sensor] = "ok"

\* C20: the confidence of a finished observation is the number of sources
\* that responded divided by the number of sources queried for the target,
\* and lies between 0 and 1.
C20_ConfidenceIsCoverage ==
    ob_pc = "done" =>
        /\ ob_score.confidence[1] * Len(ob_raw.sources_queried) =
               Len(ob_raw.sources_responded) * ob_score.confidence[2]
        /\ ob_score.confidence[1] >= 0
        /\ ob_score.confidence[1] <= ob_score.confidence[2]

-----------------------------------------------------------------------------
(* Properties of the cache called directly (checked under SpecCache) *)

\* the last set of the host's entry went through and its time to live has
\* not run out (an invalidate that went through forgets the set)
SetLive(h) == h_set[h].done /\ now < h_set[h].at + h_set[h].ttl * 1000

\* the last operation is a get the store answered, of an entry that is live
GetOfLive ==
    /\ k_last.op = "get"
    /\ k_last.ok
    /\ SetLive(HostOf(k_last.target))

\* C21, as stated: for every tier and every result, a get that follows a set
\* before the time to live runs out returns a result equal to the one stored.
C21_RoundTripEqual ==
    GetOfLive => k_last.ret = h_set[HostOf(k_last.target)].score_data

\* C21, amended: when the store answers both operations, the get returns a
\* dict that carries "_cache" = "hit", the "_ttl" of the tier and the
\* "_cached_at" of the set, and, for a result of JSON-native values, is equal
\* to the stored result on every other key.
C21_RoundTripUpToBookkeeping ==
    GetOfLive =>
        LET s == h_set[HostOf(k_last.target)]
        IN  /\ k_last.ret # PyNone
            /\ DictValue(k_last.ret, "_cache") = PyStr("hit")
            /\ DictValue(k_last.ret, "_ttl") = PyInt(s.ttl)
            /\ DictValue(k_last.ret, "_cached_at") = <<"float", ToString(s.at), <<>>>>
            /\ JsonNative(s.score_data) =>
                 DictWithout(k_last.ret, BookkeepingKeys)
                   = DictWithout(s.score_data, BookkeepingKeys)

\* a result holding a boolean, stored as a preview, has been read back
C21_Witness ==
    /\ GetOfLive
    /\ h_set[HostOf(k_last.target)].score_data = ResultScored
    /\ h_set[HostOf(k_last.target)].is_preview
    /\ ~h_set[HostOf(k_last.target)].failed

\* every spelling of every host has the key of the bare host
SpellingsNormalized ==
    \A h \in Hosts : \A t \in SpellingsOf(h) : _normalize_key(t) = _normalize_key(h)

\* C22: every spelling of a bare host (letter case, blanks around it, an
\* http:// or https:// prefix, a www. prefix, trailing slashes) has the key of
\* the host; so a get under any spelling finds what a set under another
\* stored, and an acquire_lock under any spelling is refused while the lock
\* taken under another is held.
C22_SpellingsShareKey ==
    /\ SpellingsNormalized
    /\ GetOfLive =>
         /\ k_last.ret # PyNone
         /\ DictValue(k_last.ret, "_cached_at")
              = <<"float", ToString(h_set[HostOf(k_last.target)].at), <<>>>>
    /\ (k_last.op = "acquire_lock" /\ k_last.ok /\ k_last.held_by # <<>>)
         => k_last.ret = PyBool(FALSE)

\* a get under one spelling has found what a set under another stored
C22_Witness ==
    /\ GetOfLive
    /\ k_last.ret # PyNone
    /\ k_last.target # h_set[HostOf(k_last.target)].target

\* the time to live the claim gives the tier of a set
TierTtl(s) ==
    IF s.failed THEN 300
    ELSE IF s.is_preview THEN 86400
    ELSE IF s.is_registered THEN 3600
    ELSE 21600

\* C23: the time to live of an entry depends on its tier alone: 300 s for a
\* failed result, else 86400 s for a preview, else 3600 s for a registered
\* entity, else 21600 s; failed < registered < unregistered < preview.
C23_TtlByTier ==
    /\ TTL_FAILED < TTL_REGISTERED
    /\ TTL_REGISTERED < TTL_UNREGISTERED
    /\ TTL_UNREGISTERED < TTL_PREVIEW
    /\ \A h \in CacheHosts :
         h_set[h].done =>
           LET s == h_set[h]
               e == r_score[_normalize_key(s.target)]
           IN  /\ e.exists
               /\ e.ttl = TierTtl(s)
               /\ e.expires = s.at + TierTtl(s) * 1000
               /\ DictValue(json_loads_value(e.value), "_ttl") = PyInt(TierTtl(s))

\* an entry stored with all three flags set lives as long as a failed one
C23_Witness ==
    \E h \in CacheHosts :
        /\ h_set[h].done
        /\ h_set[h].failed /\ h_set[h].is_preview /\ h_set[h].is_registered
        /\ r_score[_normalize_key(h_set[h].target)].ttl = TTL_FAILED

-----------------------------------------------------------------------------
(* Properties of the calls made one after the other (checked under SpecCalls) *)

\* call p takes a step from where it stands at `from`
StepFrom(p, from) == p_pc[p] = from /\ p_pc'[p] # from

C25_NeverPropagates == \A p \in Calls : p_pc[p] # "raised"

\* C26: whenever a call turns an exception into a degraded result while the
\* store answers, the store then holds that result under the target's key
\* with the time to live of a failed result.
C26_DegradedIsCached ==
    [][\A p \in Calls :
         ( /\ p_pc[p] \in {"compute", "collected"}
           /\ p_pc'[p] = "release"
           /\ p_result'[p].source \in {"fallback", "error"}
           /\ command_ok(p_args[p].entry, k_up) )
         => LET e == r_score'[_normalize_key(p_args[p].target)]
            IN  /\ e.exists
                /\ e.ttl = TTL_FAILED
                /\ e.value = p_result'[p].value]_vars

-----------------------------------------------------------------------------
(* The merge of the collectors' results (checked under SpecOrch) *)

\* the data collector c's coroutine handed back in this run, {} if it failed
\* or was refused
OutcomeData(c) == IF h_outcome[c] = "success" THEN o_item[c][2] ELSE <<>>

\* C27: in a run, the merged results and the signals built from them are
\* determined by the collectors' outcomes alone, whatever the order the
\* collectors finished in: each task's result is written by that task only,
\* and the merge puts every collector's data under the collector's own name.
C27_MergeIgnoresFinishingOrder ==
    /\ [](o_run = "returned" =>
            /\ DOMAIN o_results = {o_tasks[i] : i \in DOMAIN o_tasks}
            /\ \A c \in DOMAIN o_results : o_results[c] = OutcomeData(c)
            /\ build_signals(o_results) =
                 [has_structured_data |->
                    InTasks("web") /\ h_outcome["web"] = "success"
                      /\ o_item["web"][2].has_structured_data,
                  has_wikipedia_page |->
                    h_outcome["knowledge"] = "success"
                      /\ o_item["knowledge"][2].has_wikipedia_page])
    /\ [][(o_run = "gathering" /\ o_run' = "gathering") =>
            \A c \in OrchCollectors :
                o_item'[c] # o_item[c] =>
                    /\ o_task[c] # "returned" /\ o_task'[c] = "returned"
                    /\ \A d \in OrchCollectors \ {c} : o_item'[d] = o_item[d]]_vars

\* both collectors succeeded, the second task finishing first, and the
\* results are merged
C27_Witness ==
    /\ o_run = "returned"
    /\ o_tasks = <<"web", "knowledge">>
    /\ o_meta.data_sources = <<"knowledge", "web">>
    /\ o_results["web"] = [has_structured_data |-> TRUE]
    /\ o_results["knowledge"] = [has_wikipedia_page |-> TRUE]

-----------------------------------------------------------------------------
(* Properties of compute_batch (checked under SpecBatch) *)

Running == {i \in DOMAIN b_task : b_task[i] = "running"}

\* the calls in progress never outnumber max_concurrent
BatchBounded == Cardinality(Running) <= b_max

\* the returned list holds one entry for each target, in the order of the
\* targets: the call's result, or, for a call that raised, an error entry
\* naming that target
BatchEntries ==
    b_pc = "returned" =>
        /\ Len(b_out) = Len(b_targets)
        /\ \A i \in DOMAIN b_targets :
             /\ b_out[i].target = b_targets[i]
             /\ (b_out[i].error # "") <=> (b_res[i].kind = "exception")
             /\ b_res[i].kind = "dict" => b_out[i] = b_res[i]

\* C28, as stated: a batch never has more than max_concurrent
\* compute_trust_score calls in progress, it completes all of them, and it
\* returns one entry for each target in input order, a call that failed
\* giving an error entry for its target only.
C28_BatchCompletes ==
    /\ []BatchBounded
    /\ []BatchEntries
    /\ (b_pc = "gathering") ~> (b_pc = "returned")

\* C28, amended: the same, the batch ending whenever max_concurrent is at
\* least 1.
C28_BatchCompletesWithRoom ==
    /\ []BatchBounded
    /\ []BatchEntries
    /\ (b_pc = "gathering" /\ b_max >= 1) ~> (b_pc = "returned")

\* a batch of three targets with room for two has returned, its second call
\* having raised
C28_Witness ==
    /\ b_pc = "returned"
    /\ Len(b_targets) = 3
    /\ b_max = 2
    /\ b_out[2].error # ""
    /\ b_out[1].error = "" /\ b_out[3].error = ""

-----------------------------------------------------------------------------
(* Rewritten blocks (checked under SpecLedgerRewrite) *)

\* a stored block that is no longer the block it was appended as
IsAltered(e, j) ==
    \E i \in DOMAIN h_created[e] :
        /\ h_created[e][i].block_hash = j.block_hash
        /\ h_created[e][i] # BlockFromJson(j)

\* C29: every stored block inside the verified window of which any field was
\* changed after its hash was computed fails Block.verify, and verify_chain
\* lists a hash_mismatch with that block's index.
C29_AnyChangeDetected ==
    \A e \in Entities : \A limit \in 1..MaxLimit : \A j \in Window(e, limit) :
        IsAltered(e, j) =>
            LET r == verify_chain(e, limit)
            IN  /\ compute_hash(BlockFromJson(j)) # j.block_hash
                /\ ~r.verified
                /\ \E k \in DOMAIN Breaks(r) :
                      /\ Breaks(r)[k].type = "hash_mismatch"
                      /\ Breaks(r)[k].block_index = j.block_index

-----------------------------------------------------------------------------
(* Ranges of the v2 engine (checked under SpecEngine) *)

\* a sub-score between 0 and 100 points
InSubScoreRange(x) == 0 <= x /\ x <= Pts(100)

\* C30: whatever the signal values, once calculate_trust_score has returned
\* each of the five pillar sub-scores lies in [0, 100], the composite score
\* lies in [0, 1000] and the confidence lies in [0, 1].
C30_ScoresInRange ==
    v2_result # NoTrustScore =>
        /\ InSubScoreRange(v2_result.identity_score)
        /\ InSubScoreRange(v2_result.competence_score)
        /\ InSubScoreRange(v2_result.solvency_score)
        /\ InSubScoreRange(v2_result.reputation_score)
        /\ InSubScoreRange(v2_result.network_score)
        /\ 0 <= v2_result.score /\ v2_result.score <= 1000
        /\ 0 <= v2_result.confidence /\ v2_result.confidence <= ConfidenceUnit

-----------------------------------------------------------------------------
(* The call that was refused the lock (checked under SpecPipeLive) *)

\* a sleeping call never has more than the length of one lock wait before it
WaitIsBounded ==
    \A p \in Calls : p_pc[p] = "sleep" => p_wake[p] <= now + LockWaitMs

\* The step that ends the sleep of call p: the cache is read once more; with
\* an entry the call returns it, having run no collector and written neither
\* the cache nor the lock; without one it goes on to compute.  No step takes
\* a call back to the lock or to another sleep.
WaiterRechecks(p) ==
    /\ p_pc[p] = "sleep" /\ p_pc'[p] # "sleep" =>
          /\ now >= p_wake[p]
          /\ p_pc'[p] \in {"done", "compute"}
          /\ p_pc'[p] = "done" =>
                /\ p_result'[p].source = "cache_after_lock_wait"
                /\ p_result'[p].value # <<>>
                /\ ~h_ran'[p]
                /\ r_score' = r_score /\ r_lock' = r_lock
          /\ p_pc'[p] = "compute" => h_recheck_miss'[p]
    /\ p_pc[p] # "acquire" /\ p_pc[p] # "sleep" => p_pc'[p] # "sleep"
    /\ p_pc[p] # "idle" /\ p_pc[p] # "acquire" => p_pc'[p] # "acquire"

\* C31: a call that acquire_lock refused waits once, for at most 1.5 s, reads
\* the cache again, returns the cached result without collecting, scoring or
\* writing the cache when there is one and computes otherwise; and it
\* eventually returns, whatever the calls that hold the lock do.
C31_RefusedCallReturns ==
    /\ []WaitIsBounded
    /\ [][\A p \in Calls : WaiterRechecks(p)]_vars
    /\ \A p \in Calls : (p_pc[p] = "sleep") ~> (p_pc[p] = "done")

\* a refused call has computed and returned while the call that was granted
\* the lock is still in its cycle, and another refused call has returned the
\* cached result
C31_Witness ==
    \E p, q \in Calls :
        /\ p # q
        /\ p_pc[p] = "done" /\ h_ran[p] /\ p_result[p].source = "computed"
        /\ p_pc[q] = "compute" /\ p_lock_acquired[q] /\ h_answered[q]

-----------------------------------------------------------------------------
(* Who deletes the compute lock (checked under SpecPipe) *)

\* call p runs its `finally: cache.release_lock(target)` in this step
Releases(p) == p_pc[p] = "release" /\ p_pc'[p] = "done"

\* C32: a lock key that is live is deleted only by the release_lock of a call
\* whose acquire_lock returned true; a call that was refused the lock and
\* went on to compute never deletes it.
C32_OnlyHolderDeletes ==
    [][\A k \in Keys :
          KeyLive(r_lock[k]) /\ ~r_lock'[k].exists =>
              \E p \in Calls : Releases(p) /\ p_lock_acquired[p]]_vars

-----------------------------------------------------------------------------
(* The end of the compute lock (checked under SpecPipeLive) *)

\* call p returns in this step
Returns(p) == p_pc[p] # "done" /\ p_pc'[p] = "done"

\* C33 as stated: when a call that acquired the lock returns, the lock key of
\* its target is gone.
C33_GoneAtReturn ==
    [][\A p \in Calls :
          Returns(p) /\ p_lock_acquired[p] =>
              ~r_lock'[_normalize_key(p_args[p].target)].exists]_vars

\* a call that acquired the lock returns through `finally`, on the path that
\* cached a score and on the path that turned an exception into a result, and
\* the release_lock there deletes the key when the store answers
HolderReleases ==
    \A p \in Calls :
        /\ Returns(p) /\ p_lock_acquired[p] =>
              /\ Releases(p)
              /\ p_result[p].source \in {"computed", "fallback", "error"}
        /\ \A up \in BOOLEAN :
              /\ p_lock_acquired[p]
              /\ ReleaseLock(p, up)
              /\ command_ok(p_args[p].entry, up)
              => ~r_lock'[_normalize_key(p_args[p].target)].exists

\* a lock key lives for at most the lock TTL, and a key that has run out
\* does not stand in the way of acquire_lock
LockRunsOut ==
    \A k \in Keys :
        /\ KeyLive(r_lock[k]) => r_lock[k].expires <= now + LOCK_TTL * 1000
        /\ ~KeyLive(r_lock[k]) =>
              \A m \in Modules, t \in Targets, up \in BOOLEAN :
                  _normalize_key(t) = k => lock_granted(m, t, up)

\* C33: a call that acquired the lock runs release_lock before it returns,
\* on the success path and on the exception path, and the key is deleted
\* when the store answers the DELETE; a key that is not deleted runs out
\* after the lock TTL at the latest, and then acquire_lock grants it again.
C33_ReleasedOrExpired ==
    /\ [][HolderReleases]_vars
    /\ []LockRunsOut
    /\ \A k \in Keys : KeyLive(r_lock[k]) ~> ~KeyLive(r_lock[k])

\* the holder of a lock never released it, the key ran out, and a later call
\* for the same target was granted the lock
C33_Witness ==
    \E p, q \in Calls :
        /\ p # q
        /\ p_pc[p] = "compute" /\ p_lock_acquired[p] /\ h_answered[p]
        /\ p_pc[q] = "compute" /\ p_lock_acquired[q] /\ h_answered[q]
        /\ _normalize_key(p_args[p].target) = _normalize_key(p_args[q].target)
        /\ KeyLive(r_lock[_normalize_key(p_args[q].target)])
        /\ now >= LOCK_TTL * 1000

-----------------------------------------------------------------------------
(* The hot store after an append (checked under SpecLedgerConcurrent) *)

\* the blocks appended for entity e so far, in the order of their appends
Appended(e) == h_created[e]

\* the last block appended for (e, sensor); there is one
LastOf(e, sensor) ==
    LET is == {i \in DOMAIN Appended(e) : Appended(e)[i].sensor = sensor}
    IN  Appended(e)[CHOOSE i \in is : \A k \in is : k <= i]

\* the five keys of entity e show the whole of its latest append
HotStoreWhole(e) ==
    LET last == Appended(e)[Len(Appended(e))]
    IN  /\ ch_head[e].exists
        /\ get_chain_head(e) = <<last.block_hash, last.block_index>>
        /\ ch_list[e] # <<>>
        /\ ch_list[e][1] = last.block_hash
        /\ Len(ch_list[e]) <= HotListKeep
        /\ Len(ch_list[e]) = Min(Len(Appended(e)), HotListKeep)
        /\ \A i \in DOMAIN ch_list[e] :
              ch_list[e][i] = Appended(e)[Len(Appended(e)) + 1 - i].block_hash
        /\ \A s \in DeltaSensors :
              IF \E i \in DOMAIN Appended(e) : Appended(e)[i].sensor = s
                THEN /\ ch_latest[e][s] # <<"none">>
                     /\ get_last_signals(e, s) = LastOf(e, s).signals
                ELSE ch_latest[e][s] = <<"none">>
        /\ e \in ch_entities

\* the keys of an entity nothing was appended for are all absent
HotStoreEmpty(e) ==
    /\ ~ch_head[e].exists
    /\ ch_list[e] = <<>>
    /\ \A s \in DeltaSensors : ch_latest[e][s] = <<"none">>
    /\ e \notin ch_entities

\* C34: in every state a reader of the hot store can see, also while other
\* writers are between their reads and their append, the keys of an entity
\* show all of its latest completed append or nothing at all: the head has
\* the hash and the index of the block appended last, that hash is the first
\* of the recent-block list, the list holds no more than its limit, the
\* latest-signals entry of each sensor is that sensor's last payload, and the
\* entity is in the known-entities set.
C34_HotStoreConsistent ==
    \A e \in Entities :
        IF Appended(e) = <<>> THEN HotStoreEmpty(e) ELSE HotStoreWhole(e)

\* three appends were made for an entity, two of them by one sensor with
\* different payloads, the list was trimmed, and two of the writers had
\* read the same head before they appended
C34_Witness ==
    \E e \in Entities :
        /\ Len(Appended(e)) = 3
        /\ Len(ch_list[e]) = HotListKeep
        /\ \E i, k \in DOMAIN Appended(e) :
              /\ i < k
              /\ Appended(e)[i].sensor = Appended(e)[k].sensor
              /\ Appended(e)[i].signals # Appended(e)[k].signals
        /\ \E i, k \in DOMAIN Appended(e) :
              i < k /\ Appended(e)[i].prev_hash = Appended(e)[k].prev_hash

-----------------------------------------------------------------------------
(* The delta of a block (checked under SpecLedgerDelta) *)

\* the payload observed before block i of entity e by the same sensor, as
\* a one-element sequence, or <<>> when block i is the sensor's first
PreviousPayload(e, i) ==
    LET is == {k \in 1..(i - 1) : Appended(e)[k].sensor = Appended(e)[i].sensor}
    IN  IF is = {} THEN <<>>
        ELSE <<Appended(e)[CHOOSE k \in is : \A m \in is : m <= k].signals>>

\* the keys of either payload whose values differ
ChangedKeys(old, new) ==
    {k \in DOMAIN old \cup DOMAIN new : DictGet(old, k) # DictGet(new, k)}

\* the severity the entry of key k has to carry, or <<>>
DueSeverity(k, old, new) ==
    LET was == DictGet(old, k)
        nw  == DictGet(new, k)
    IN  IF k \in {"dns_has_spf", "dns_has_dmarc", "ssl_valid"}
           /\ was = <<TRUE>> /\ nw = <<FALSE>>
          THEN <<"critical">>
        ELSE IF k = "vt_malicious_count" /\ was # <<>> /\ nw # <<>>
                /\ nw[1] > was[1]
          THEN <<"high">>
        ELSE IF k = "tranco_rank" /\ was # <<>> /\ was[1] > 0
                /\ (nw = <<>> \/ nw = <<0>>)
          THEN <<"warning">>
        ELSE <<>>

\* the delta lists exactly the changed keys, with the old and the new value
\* and the severity that is due
IsDeltaOf(delta, old, new) ==
    /\ \A k \in ChangedKeys(old, new) :
          /\ k \in DOMAIN delta
          /\ delta[k].was = DictGet(old, k)
          /\ delta[k].now = DictGet(new, k)
          /\ DueSeverity(k, old, new) # <<>> =>
                /\ "severity" \in DOMAIN delta[k]
                /\ delta[k].severity = DueSeverity(k, old, new)[1]
    /\ \A k \in DOMAIN old \cup DOMAIN new :
          k \notin ChangedKeys(old, new) => k \notin DOMAIN delta

\* C35: the delta of every block is the delta against the payload the same
\* sensor observed for the entity before it: an entry with the old and the
\* new value for exactly the keys whose values differ, critical when
\* dns_has_spf, dns_has_dmarc or ssl_valid goes from true to false, high
\* when vt_malicious_count increases, warning when tranco_rank goes from a
\* positive rank to 0 or absent; the first block of a sensor has no delta.
C35_DeltaAgainstPrevious ==
    \A e \in Entities : \A i \in DOMAIN Appended(e) :
        LET b == Appended(e)[i]
            prev == PreviousPayload(e, i)
        IN  IF prev = <<>> THEN b.delta = <<>>
            ELSE IsDeltaOf(b.delta, prev[1], b.signals)

-----------------------------------------------------------------------------
(* The lake write that raises (checked under SpecLedgerLake) *)

\* the lines of the lake
LakeLines == {lk_lines[i] : i \in DOMAIN lk_lines}

\* the step in which the lake write of writer w's block raises
LakeWriteRaises(w) == LakeWriteBlock(w, TRUE)

\* a call that has returned handed back the block appended last, and the hot
\* store shows that block, whether or not the lake has its line
ReturnedBlockStored ==
    \A w \in Writers :
        ro_ret[w].status = "returned" =>
            LET b == ro_ret[w].block
            IN  /\ b = Appended(b.entity_id)[Len(Appended(b.entity_id))]
                /\ HotStoreWhole(b.entity_id)
                /\ \E x \in ch_blocks : x.key = b.block_hash /\ x.json = BlockToJson(b)

\* record_observation raises only where the LakeWriter could not be
\* constructed, before create_block
RaisedBeforeCreate ==
    \A w \in Writers : ro_ret[w].status = "raised" => ~lk_writer /\ lk_lines = <<>>

\* C36: when the lake write of a block raises, record_observation returns
\* that block and does not raise, and the head, the latest signals, the
\* block list, the stored block and the known-entities set stay as the
\* append of the block left them.
C36_LakeFailureNotFatal ==
    /\ [][\A w \in Writers :
             LakeWriteRaises(w) =>
                 /\ ro_ret'[w] = [status |-> "returned", block |-> w_loc[w].block]
                 /\ UNCHANGED <<ch_head, ch_latest, ch_blocks, ch_list, ch_entities>>]_vars
    /\ []ReturnedBlockStored
    /\ []RaisedBeforeCreate

\* a record_observation returned a block that is in the hot store and not in
\* the lake, after an earlier block did reach the lake
C36_Witness ==
    \E w \in Writers :
        /\ ro_ret[w].status = "returned"
        /\ BlockToJson(ro_ret[w].block) \notin LakeLines
        /\ ro_ret[w].block.block_index >= 1
        /\ lk_lines # <<>>
        /\ ch_head[ro_ret[w].block.entity_id].hash = ro_ret[w].block.block_hash

-----------------------------------------------------------------------------
(* The recovery of an open breaker (checked under SpecBreakerLive) *)

LeavesOpen ==
    br_state = "open" /\ br_state' # "open" =>
        \E r \in Runs :
            \/ /\ EnterStep(r)
               /\ RecoveryElapsed
               /\ br_state' = "half-open"
               /\ g_pc'[r] = "running" /\ g_trial'[r]
            \/ /\ RecordStep(r)
               /\ g_last'[r] = "success"
               /\ br_state' = "closed"

\* the can_execute made on an open breaker after the recovery window admits
\* the call and leaves the breaker half-open
TrialAdmitted ==
    \A r \in Runs :
        EnterStep(r) /\ br_state = "open" /\ RecoveryElapsed =>
            br_state' = "half-open" /\ g_pc'[r] = "running" /\ g_trial'[r]

\* the success of a trial closes the breaker and clears the count
TrialSuccessCloses ==
    \A r \in Runs :
        RecordStep(r) /\ g_trial[r] /\ g_last'[r] = "success" =>
            br_state' = "closed" /\ br_failures' = 0

-----------------------------------------------------------------------------
(* The ways out of open, and the count of failures (checked under SpecBreaker) *)

\* C38: an open breaker stays open until a can_execute made after the
\* recovery window moves it to half-open; in particular the record_success
\* of a call admitted before the breaker opened does not close it.
C38_OpenLeavesByTimeoutOnly ==
    [][br_state = "open" =>
          \/ br_state' = "open"
          \/ /\ br_state' = "half-open"
             /\ RecoveryElapsed
             /\ \E r \in Runs : EnterStep(r)]_vars

\* C39: a closed breaker has fewer than Threshold failures on its count, an
\* open or half-open one has Threshold or more, and the count is never
\* negative.
C39_StateMatchesCount ==
    /\ br_state \in {"closed", "open", "half-open"}
    /\ br_failures >= 0
    /\ br_state = "closed" => br_failures < Threshold
    /\ br_state \in {"open", "half-open"} => br_failures >= Threshold

\* the breaker is half-open with more failures on its count than it takes to
\* open it, and a run is in flight
C39_Witness ==
    /\ br_state = "half-open"
    /\ br_failures > Threshold
    /\ \E r \in Runs : g_pc[r] = "running"

-----------------------------------------------------------------------------
(* Grade and recommendation (checked under SpecScore) *)

\* the grades from the lowest to the highest, and the recommendations from
\* the most cautious to the least
GradeOrder == <<"D", "CCC", "B", "BB", "BBB", "A", "AA", "AAA">>
RecommendationOrder ==
    <<"REJECT", "ENHANCED_DUE_DILIGENCE", "MANUAL_REVIEW",
      "PROCEED_WITH_CAUTION", "PROCEED">>
\* the lowest score of each grade and of each recommendation
GradeFloor == <<0, 200, 350, 450, 550, 650, 750, 850>>
RecommendationFloor == <<0, 200, 350, 450, 650>>

RankIn(order, x) == CHOOSE i \in DOMAIN order : order[i] = x

\* the last entry of the table whose floor the score reaches
Banded(order, floor, score) ==
    order[CHOOSE i \in DOMAIN order :
            /\ floor[i] <= score
            /\ \A k \in DOMAIN order : floor[k] <= score => k <= i]

\* the scores compute_score can return
FinalScores == 0..1000

\* a higher score never gets a lower grade or a more cautious recommendation
GradesMonotone ==
    \A x \in FinalScores \ {1000} :
        /\ RankIn(GradeOrder, grade_of(x)) <= RankIn(GradeOrder, grade_of(x + 1))
        /\ RankIn(RecommendationOrder, recommendation_of(x))
              <= RankIn(RecommendationOrder, recommendation_of(x + 1))

\* C40: the grade and the recommendation of a result are the bands of its
\* final score, the score after the hard caps, under fixed thresholds, and
\* rise with it; the recommendation is PROCEED exactly when the final score
\* is at least 650, exactly when the grade is A, AA or AAA, and exactly when
\* to_preview and to_full report is_verified.
C40_GradeFollowsFinalScore ==
    /\ GradesMonotone
    /\ s_result # NoScore =>
          LET r == s_result
              proceed == r.recommendation = "PROCEED"
          IN  /\ r.score = apply_hard_caps(h_raw_score, s_raw)[1]
              /\ r.score \in FinalScores
              /\ r.grade = Banded(GradeOrder, GradeFloor, r.score)
              /\ r.recommendation = Banded(RecommendationOrder, RecommendationFloor, r.score)
              /\ proceed <=> r.score >= 650
              /\ proceed <=> r.grade \in {"A", "AA", "AAA"}
              /\ proceed <=> to_preview(r).is_verified
              /\ proceed <=> to_full(r).is_verified

\* a composite of 650 or more was capped below it, and the result is graded
\* by the capped score: not verified, not PROCEED
C40_Witness ==
    /\ s_result # NoScore
    /\ h_raw_score >= 650
    /\ s_result.cap_applied # None
    /\ s_result.score < 650
    /\ s_result.grade = "D"
    /\ ~to_full(s_result).is_verified

=============================================================================
